---- MODULE Spec2Model ----
(***************************************************************************)
(* Model of the AI-LogAnalysis repository: the reversible IP               *)
(* pseudonymization engine (src/utils/ip_masker.py), the log tokenizer and *)
(* enrichment engine (src/utils/log_parser.py) and the part of the main    *)
(* window that sends text to the analysis service (src/gui/main_window.py).*)
(*                                                                         *)
(* Text is a sequence of tokens separated by single spaces.  A token is a  *)
(* word, or a dotted quad of decimal numbers (an IP-like literal), or a    *)
(* line break.  An IP address is the tuple of its four numbers.            *)
(***************************************************************************)
EXTENDS Integers, Sequences, FiniteSets, TLC

VARIABLES
    mapping,            \* IPMasker.mapping: ordered dict original -> pseudonym
    reverse_mapping,    \* IPMasker.reverse_mapping: ordered dict pseudonym -> original
    max_mappings,       \* IPMasker.max_mappings
    store,              \* the file ip_mapping.json
    alive,              \* FALSE after a constructor that raised (no IPMasker object)
    ret,                \* what the last call on the masker did and returned (NoCall after a handler of the window)
    unsaved,            \* <<ip, pseudonym>> inserted by a mask_ip whose write raised, since construction or clear
    lines,              \* the lines of the file given to LogParser.parse_file
    df,                 \* the DataFrame parse_file returned (NoFrame before the call)
    summary,            \* what get_security_summary(df) returned (NoSummary before the call)
    csv_lines,          \* the lines of the file given to LogParser._parse_csv
    csv_df,             \* what _parse_csv returned or raised (NoCsv before the call)
    mask_ip_checkbox,   \* MainWindow.mask_ip_checkbox.isChecked()
    alert_edit,         \* MainWindow.alert_edit.toPlainText()
    current_file,       \* MainWindow.current_file is set
    analyze_btn,        \* MainWindow.analyze_btn.isEnabled()
    conversation_history, \* MainWindow.conversation_history
    in_conversation,    \* MainWindow.in_conversation
    analyze_threads     \* the AnalyzeThread objects that have not delivered their signal

masker_vars == <<mapping, reverse_mapping, max_mappings, store, alive, ret, unsaved>>

parser_vars == <<lines, df, summary, csv_lines, csv_df>>

gui_vars ==
    <<mask_ip_checkbox, alert_edit, current_file, analyze_btn, conversation_history,
      in_conversation, analyze_threads>>

vars == <<masker_vars, parser_vars, gui_vars>>

----------------------------------------------------------------------------
(* Bounds *)

\* the smallest and the largest value the configuration gives max_mappings
MinMaxMappings == 2
MaxMaxMappings == 3

\* the most lines a parsed file has
MaxFileLines == 2

\* the most AnalyzeThread objects alive at a time
MaxThreads == 1

\* the most lines and columns of a delimited file
MaxCsvLines == 3
MaxCsvColumns == 3

MaxMappingsChoices == MinMaxMappings..MaxMaxMappings

\* original addresses seen by the masker: two of class A, one of class C
IPs == { <<8, 8, 8, 8>>, <<9, 9, 9, 9>>, <<203, 0, 113, 7>> }

----------------------------------------------------------------------------
(* Python dict: a sequence of [k, v] entries in insertion order, keys unique *)

DictKeys(d) == { d[i].k : i \in DOMAIN d }

DictHas(d, key) == key \in DictKeys(d)

DictGet(d, key) == d[CHOOSE i \in DOMAIN d : d[i].k = key].v

\* d[key] = value: an existing key keeps its position
DictSet(d, key, value) ==
    IF DictHas(d, key)
    THEN [i \in DOMAIN d |-> IF d[i].k = key THEN [k |-> key, v |-> value] ELSE d[i]]
    ELSE Append(d, [k |-> key, v |-> value])

\* {v: k for k, v in d.items()}
RECURSIVE DictInvertFrom(_, _, _)
DictInvertFrom(d, i, acc) ==
    IF i > Len(d) THEN acc
    ELSE DictInvertFrom(d, i + 1, DictSet(acc, d[i].v, d[i].k))

DictInvert(d) == DictInvertFrom(d, 1, << >>)

\* items[-n:] of a list
LastItems(items, n) ==
    IF n = 0 \/ n >= Len(items) THEN items
    ELSE SubSeq(items, Len(items) - n + 1, Len(items))

----------------------------------------------------------------------------
(* The mapping file *)

NoFile == [exists |-> FALSE, valid |-> FALSE, items |-> << >>]

JsonFile(d) == [exists |-> TRUE, valid |-> TRUE, items |-> d]

\* a file that open(.., 'w') truncated and json.dump did not complete
BrokenFile == [exists |-> TRUE, valid |-> FALSE, items |-> << >>]

\* _load_mapping: no file, or a file json.load rejects, gives {}
load_mapping(file) == IF file.exists /\ file.valid THEN file.items ELSE << >>

\* _save_mapping that completes
save_mapping(d) == JsonFile(d)

\* what a _save_mapping that raises can leave: open() failed and the file is as
\* it was, or the write failed after open() truncated the file
FailedSaves(file) == { file, BrokenFile }

----------------------------------------------------------------------------
(* mask_ip and unmask_ip *)

\* a pseudonym with the two counters in each other's place
masked_ip_swapped(ip, n) ==
    LET first_octet == ip[1]
        x == n % 256
        y == (n \div 256) % 256
    IN  IF first_octet >= 1 /\ first_octet <= 126 THEN <<10, 0, y, x>>
        ELSE IF first_octet >= 128 /\ first_octet <= 191 THEN <<172, 16, y, x>>
        ELSE IF first_octet >= 192 /\ first_octet <= 223 THEN <<192, 168, y, x>>
        ELSE <<169, 254, y, x>>

\* a pseudonym whose counter advances with every second entry
masked_ip_halved(ip, n) ==
    LET first_octet == ip[1]
        x == (n \div 2) % 256
        y == (n \div 512) % 256
    IN  IF first_octet >= 1 /\ first_octet <= 126 THEN <<10, 0, x, y>>
        ELSE IF first_octet >= 128 /\ first_octet <= 191 THEN <<172, 16, x, y>>
        ELSE IF first_octet >= 192 /\ first_octet <= 223 THEN <<192, 168, x, y>>
        ELSE <<169, 254, x, y>>

\* the pseudonym mask_ip builds for ip when the mapping has n entries
masked_ip(ip, n) ==
    LET first_octet == ip[1]
        x == n % 256
        y == (n \div 256) % 256
    IN  IF first_octet >= 1 /\ first_octet <= 126 THEN <<10, 0, x, y>>
        ELSE IF first_octet >= 128 /\ first_octet <= 191 THEN <<172, 16, x, y>>
        ELSE IF first_octet >= 192 /\ first_octet <= 223 THEN <<192, 168, x, y>>
        ELSE <<169, 254, x, y>>

\* a mask_ip that records the new pseudonym in mapping only
mask_ip_forward_only(m, r, ip) ==
    IF DictHas(m, ip)
    THEN [m |-> m, r |-> r, out |-> DictGet(m, ip), created |-> FALSE]
    ELSE LET p == masked_ip(ip, Len(m))
         IN  [m |-> DictSet(m, ip, p), r |-> r, out |-> p, created |-> TRUE]

\* a mask_ip that enforces a capacity: a full mapping loses its oldest entry
\* to the new one
mask_ip_trimming(m, r, ip) ==
    IF DictHas(m, ip)
    THEN [m |-> m, r |-> r, out |-> DictGet(m, ip), created |-> FALSE]
    ELSE LET p == masked_ip(ip, Len(m))
             kept == IF Len(m) >= MinMaxMappings THEN Tail(m) ELSE m
         IN  [m |-> DictSet(kept, ip, p), r |-> DictSet(DictInvert(kept), p, ip),
              out |-> p, created |-> TRUE]

\* mask_ip up to the write: [m, r] the dicts after it, out the pseudonym,
\* created whether an entry was added (and _save_mapping is called)
mask_ip(m, r, ip) ==
    IF DictHas(m, ip)
    THEN [m |-> m, r |-> r, out |-> DictGet(m, ip), created |-> FALSE]
    ELSE LET p == masked_ip(ip, Len(m))
         IN  [m |-> DictSet(m, ip, p), r |-> DictSet(r, p, ip), out |-> p, created |-> TRUE]

\* unmask_ip: reverse_mapping.get(masked_ip, masked_ip)
unmask_ip(r, p) == IF DictHas(r, p) THEN DictGet(r, p) ELSE p

\* get_mapping: {mask: ip for ip, mask in mapping.items()}
get_mapping(m) == DictInvert(m)

----------------------------------------------------------------------------
(* Text *)

\* a word
W(s) == [t |-> "w", w |-> s, ip |-> << >>]

\* a dotted quad a.b.c.d of decimal numbers
Q(a, b, c, d) == [t |-> "ip", w |-> "", ip |-> <<a, b, c, d>>]

\* IP_PATTERN on a dotted quad between spaces: every number is 0..255
MatchesIP_PATTERN(tok) == tok.t = "ip" /\ \A i \in 1..4 : tok.ip[i] <= 255

RECURSIVE DecLen(_)
\* the number of digits of str(n)
DecLen(n) == IF n < 10 THEN 1 ELSE 1 + DecLen(n \div 10)

RECURSIVE Pow10(_)
Pow10(k) == IF k = 0 THEN 1 ELSE 10 * Pow10(k - 1)

\* str(a) is a suffix of str(w); the digits of str(w) before it, as a number
\* (-1 when there are none)
IsDecSuffix(a, w) == w % Pow10(DecLen(a)) = a /\ DecLen(a) <= DecLen(w)
DigitsBefore(a, w) == IF DecLen(a) = DecLen(w) THEN -1 ELSE w \div Pow10(DecLen(a))

\* str(d) is a prefix of str(z); the digits of str(z) after it: their count and
\* their value
IsDecPrefix(d, z) ==
    /\ DecLen(d) <= DecLen(z)
    /\ z \div Pow10(DecLen(z) - DecLen(d)) = d
DigitsAfterLen(d, z) == DecLen(z) - DecLen(d)
DigitsAfter(d, z) == z % Pow10(DecLen(z) - DecLen(d))

\* the escaped pseudonym p, as a regular expression, matches inside the dotted
\* quad q: the three dots line up
OccursIn(p, q) ==
    /\ IsDecSuffix(p[1], q[1])
    /\ p[2] = q[2]
    /\ p[3] = q[3]
    /\ IsDecPrefix(p[4], q[4])

\* where in str(q) the match of p starts
StartIn(p, q) == DecLen(q[1]) - DecLen(p[1])

\* str(q) with the match of p replaced by str(o).  The digits after the match
\* keep their leading zeros only as a count, so the result is a dotted quad
\* when there are none or they do not start with 0.
ReplaceIn(p, q, o) ==
    LET before == DigitsBefore(p[1], q[1])
        n == DigitsAfterLen(p[4], q[4])
        first == IF before = -1 THEN o[1] ELSE before * Pow10(DecLen(o[1])) + o[1]
        last == o[4] * Pow10(n) + DigitsAfter(p[4], q[4])
    IN  <<first, o[2], o[3], last>>

\* mask_text: re.sub(IP_PATTERN, replace_ip, text), left to right.  failAt = k > 0
\* makes the k-th _save_mapping of the call raise, which ends the call; broken
\* says whether that write left the file truncated.
RECURSIVE mask_text_from(_, _, _, _, _, _, _, _, _)
mask_text_from(m, r, file, text, i, out, writes, failAt, broken) ==
    IF i > Len(text)
    THEN [m |-> m, r |-> r, file |-> file, out |-> out, writes |-> writes,
          raised |-> FALSE, failed |-> << >>]
    ELSE IF ~MatchesIP_PATTERN(text[i])
    THEN mask_text_from(m, r, file, text, i + 1, Append(out, text[i]), writes, failAt, broken)
    ELSE LET res == mask_ip(m, r, text[i].ip)
             tok == [t |-> "ip", w |-> "", ip |-> res.out]
         IN  IF ~res.created
             THEN mask_text_from(m, r, file, text, i + 1, Append(out, tok), writes, failAt, broken)
             ELSE IF writes + 1 = failAt
             THEN [m |-> res.m, r |-> res.r,
                   file |-> IF broken THEN BrokenFile ELSE file,
                   out |-> << >>, writes |-> writes, raised |-> TRUE, failed |-> <<text[i].ip, res.out>>]
             ELSE mask_text_from(res.m, res.r, save_mapping(res.m), text, i + 1,
                                 Append(out, tok), writes + 1, failAt, broken)

\* the tokens of a text in reverse order
Reversed(text) == [i \in DOMAIN text |-> text[Len(text) + 1 - i]]

\* a mask_text that replaces from right to left
mask_text_right_to_left(m, r, file, text, failAt, broken) ==
    LET res == mask_text_from(m, r, file, Reversed(text), 1, << >>, 0, failAt, broken)
    IN  [res EXCEPT !.out = Reversed(@)]

mask_text(m, r, file, text, failAt, broken) ==
    mask_text_from(m, r, file, text, 1, << >>, 0, failAt, broken)

\* the first alternative of the combined pattern that matches at the leftmost
\* position of the dotted quad q; 0 when none matches
FirstAlternative(r, q) ==
    LET hits == { j \in DOMAIN r : OccursIn(r[j].k, q) }
        leftmost == { j \in hits : \A h \in hits : StartIn(r[j].k, q) <= StartIn(r[h].k, q) }
    IN  IF hits = {} THEN 0 ELSE CHOOSE j \in leftmost : \A h \in leftmost : j <= h

\* unmask_text: re.sub over the alternation of the escaped pseudonyms
unmask_text(r, text) ==
    [i \in DOMAIN text |->
        IF text[i].t # "ip" THEN text[i]
        ELSE LET j == FirstAlternative(r, text[i].ip)
             IN  IF j = 0 THEN text[i]
                 ELSE [t |-> "ip", w |-> "",
                       ip |-> ReplaceIn(r[j].k, text[i].ip, unmask_ip(r, r[j].k))]]

\* the texts handed to mask_text
Texts ==
    { << >>,
      <<W("no"), W("address")>>,
      <<W("connection"), W("from"), Q(203, 0, 113, 7), W("to"), Q(8, 8, 8, 8)>>,
      <<Q(9, 9, 9, 9), W("and"), Q(9, 9, 9, 9)>>,
      <<W("build"), Q(310, 0, 0, 0)>> }

\* the texts handed to unmask_text: those, and a reply that names pseudonyms
UnmaskTexts == Texts \cup { <<W("block"), Q(10, 0, 0, 0), W("and"), Q(192, 168, 1, 0)>> }

----------------------------------------------------------------------------
(* IPMasker construction *)

\* a trim that keeps the oldest entries: items[:max]
trim_mappings_oldest(m, max) == IF Len(m) <= max THEN m ELSE SubSeq(m, 1, max)

\* _trim_mappings: the dict kept
trim_mappings(m, max) == IF Len(m) <= max THEN m ELSE LastItems(m, max)

NoCall == [op |-> "init", arg |-> << >>, out |-> << >>, created |-> FALSE, raised |-> FALSE]

MaskerInit ==
    /\ max_mappings \in MaxMappingsChoices
    /\ store = NoFile
    /\ mapping = << >>
    /\ reverse_mapping = << >>
    /\ alive = TRUE
    /\ ret = NoCall
    /\ unsaved = {}

\* the process ends and a new one constructs IPMasker on the same directory,
\* with the max_mappings the configuration holds then
Restart(max) ==
    LET loaded == load_mapping(store)
        kept == trim_mappings(loaded, max)
        trims == Len(loaded) > max
    IN  /\ max_mappings' = max
        /\ unsaved' = {}
        /\ \/ /\ mapping' = kept
              /\ reverse_mapping' = DictInvert(kept)
              /\ store' = IF trims THEN save_mapping(kept) ELSE store
              /\ alive' = TRUE
              /\ ret' = [NoCall EXCEPT !.op = "construct", !.created = trims]
           \/ /\ trims
              /\ store' \in FailedSaves(store)
              /\ mapping' = << >>
              /\ reverse_mapping' = << >>
              /\ alive' = FALSE
              /\ ret' = [NoCall EXCEPT !.op = "construct", !.created = TRUE, !.raised = TRUE]

\* a construction whose load finds no more than max entries: _trim_mappings
\* is not called
RestartWithinCapacity(max) ==
    /\ Len(load_mapping(store)) <= max
    /\ Restart(max)

\* mask_ip(ip) called on the masker
MaskIp(ip) ==
    LET res == mask_ip(mapping, reverse_mapping, ip)
    IN  /\ alive
        /\ mapping' = res.m
        /\ reverse_mapping' = res.r
        /\ UNCHANGED <<max_mappings, alive>>
        /\ \/ /\ store' = IF res.created THEN save_mapping(res.m) ELSE store
              /\ ret' = [op |-> "mask_ip", arg |-> ip, out |-> res.out,
                         created |-> res.created, raised |-> FALSE]
              /\ UNCHANGED unsaved
           \/ /\ res.created
              /\ store' \in FailedSaves(store)
              /\ ret' = [op |-> "mask_ip", arg |-> ip, out |-> res.out,
                         created |-> TRUE, raised |-> TRUE]
              /\ unsaved' = unsaved \cup {<<ip, res.out>>}

\* mask_text(text) called on the masker
MaskText(text) ==
    \E failAt \in 0..Len(text), broken \in BOOLEAN :
        LET res == mask_text(mapping, reverse_mapping, store, text, failAt, broken)
        IN  /\ alive
            /\ failAt > 0 => res.raised
            /\ broken => res.raised
            /\ mapping' = res.m
            /\ reverse_mapping' = res.r
            /\ store' = res.file
            /\ ret' = [op |-> "mask_text", arg |-> text, out |-> res.out,
                       created |-> res.m # mapping, raised |-> res.raised]
            /\ unsaved' = IF res.raised THEN unsaved \cup {res.failed} ELSE unsaved
            /\ UNCHANGED <<max_mappings, alive>>

\* unmask_text(text) called on the masker
UnmaskText(text) ==
    /\ alive
    /\ ret' = [op |-> "unmask_text", arg |-> text, out |-> unmask_text(reverse_mapping, text),
               created |-> FALSE, raised |-> FALSE]
    /\ UNCHANGED <<mapping, reverse_mapping, max_mappings, store, alive, unsaved>>

\* a clear_mappings that empties the dicts and leaves the file alone
ClearMappingsNoSave ==
    /\ alive
    /\ mapping' = << >>
    /\ reverse_mapping' = << >>
    /\ unsaved' = {}
    /\ ret' = [NoCall EXCEPT !.op = "clear_mappings"]
    /\ UNCHANGED <<max_mappings, alive, store>>

\* clear_mappings()
ClearMappings ==
    /\ alive
    /\ mapping' = << >>
    /\ reverse_mapping' = << >>
    /\ unsaved' = {}
    /\ UNCHANGED <<max_mappings, alive>>
    /\ \/ /\ store' = IF store.exists THEN save_mapping(<< >>) ELSE store
          /\ ret' = [NoCall EXCEPT !.op = "clear_mappings"]
       \/ /\ store.exists
          /\ store' \in FailedSaves(store)
          /\ ret' = [NoCall EXCEPT !.op = "clear_mappings", !.raised = TRUE]

----------------------------------------------------------------------------
(* LogParser: the tokenizer *)

\* the end of a line ('\n', which readlines keeps)
NL == [t |-> "nl", w |-> "", ip |-> << >>]

\* a timestamp written in one of the four conventions of timestamp_patterns:
\* "iso" 2023-01-01T12:34:56, "spaced" 2023-01-01 12:34:56,
\* "apache" [01/Jan/2023:12:34:56 +0000], "syslog" Jan 02 03:04:05
TS(kind) == [t |-> "ts", w |-> kind, ip |-> << >>]

\* None
NoneTok == [t |-> "none", w |-> "", ip |-> << >>]

timestamp_patterns == <<"iso", "spaced", "apache", "syslog">>

\* lines[:10]
SampleSize == 10

\* re.search(pattern, line): the Apache pattern has no ^ and matches anywhere
MatchesTimestamp(kind, line) ==
    IF kind = "apache"
    THEN \E i \in DOMAIN line : line[i] = TS("apache")
    ELSE Len(line) >= 1 /\ line[1] = TS(kind)

\* a detection that asks every line of the file, not the first ten, to match
detected_pattern_whole_file(ls) ==
    LET all == { k \in DOMAIN timestamp_patterns :
                   \A i \in DOMAIN ls : MatchesTimestamp(timestamp_patterns[k], ls[i]) }
    IN  IF all = {} THEN 0 ELSE CHOOSE k \in all : \A h \in all : k <= h

\* the index of the first pattern that matches every sampled line; 0 for None
detected_pattern(ls) ==
    LET sample == SubSeq(ls, 1, IF Len(ls) < SampleSize THEN Len(ls) ELSE SampleSize)
        all == { k \in DOMAIN timestamp_patterns :
                   \A i \in DOMAIN sample : MatchesTimestamp(timestamp_patterns[k], sample[i]) }
    IN  IF all = {} THEN 0 ELSE CHOOSE k \in all : \A h \in all : k <= h

\* ''.join(entries)
RECURSIVE Join(_)
Join(entries) == IF entries = << >> THEN << >> ELSE Head(entries) \o Join(Tail(entries))

\* one row of the DataFrame; an absent column is << >>, a None cell NoneTok
Row(raw_log, timestamp, message) ==
    [raw_log |-> raw_log, timestamp |-> timestamp, message |-> message,
     attacker_ip |-> NoneTok, target_ip |-> NoneTok, threat_type |-> NoneTok,
     severity |-> NoneTok, threat_description |-> NoneTok]

\* {'timestamp': current_entry[0], 'message': ''.join(current_entry[1:])}
Entry(current_entry) == Row(<< >>, Head(current_entry), Join(Tail(current_entry)))

\* a loop that does not keep the lines that continue an entry
RECURSIVE SplitByTimestamp_dropping(_, _, _, _, _)
SplitByTimestamp_dropping(ls, kind, i, current_entry, data) ==
    IF i > Len(ls)
    THEN IF current_entry # << >> THEN Append(data, Entry(current_entry)) ELSE data
    ELSE IF MatchesTimestamp(kind, ls[i])
    THEN SplitByTimestamp_dropping(ls, kind, i + 1, <<ls[i]>>,
            IF current_entry # << >> THEN Append(data, Entry(current_entry)) ELSE data)
    ELSE SplitByTimestamp_dropping(ls, kind, i + 1,
            IF current_entry # << >> THEN current_entry ELSE <<ls[i]>>, data)

\* the loop of _parse_log_or_txt over the lines when a pattern was detected
RECURSIVE SplitByTimestamp(_, _, _, _, _)
SplitByTimestamp(ls, kind, i, current_entry, data) ==
    IF i > Len(ls)
    THEN IF current_entry # << >> THEN Append(data, Entry(current_entry)) ELSE data
    ELSE IF MatchesTimestamp(kind, ls[i])
    THEN SplitByTimestamp(ls, kind, i + 1, <<ls[i]>>,
            IF current_entry # << >> THEN Append(data, Entry(current_entry)) ELSE data)
    ELSE SplitByTimestamp(ls, kind, i + 1, Append(current_entry, ls[i]), data)

\* no DataFrame
NoFrame == [columns |-> "none", rows |-> << >>]

\* _parse_log_or_txt: columns is "raw_log" or "timestamp,message"
parse_log_or_txt(ls) ==
    LET k == detected_pattern(ls)
    IN  IF ls = << >> THEN [columns |-> "raw_log", rows |-> << >>]
        ELSE IF k # 0
        THEN [columns |-> "timestamp,message",
              rows |-> SplitByTimestamp(ls, timestamp_patterns[k], 1, << >>, << >>)]
        ELSE [columns |-> "raw_log",
              rows |-> [i \in DOMAIN ls |-> Row(ls[i], << >>, << >>)]]

----------------------------------------------------------------------------
(* LogParser: matching the patterns of the catalog on a text               *)
(*                                                                         *)
(* The regular expressions are evaluated on token sequences.  The word     *)
(* sets below list, for each literal of a pattern, the words of the        *)
(* vocabulary (Vocabulary) that contain it, ignoring case; the texts of    *)
(* the model use no other word.                                            *)

Vocabulary ==
    { "sshd:", "Failed", "password", "for", "root", "from", "to", "port", "22",
      "blocked", "SQL", "injection", "attempt", "DDoS", "flood", "malware",
      "beacon", "scan", "repeated", "login", "failures", "connection", "link", "up",
      "brute", "force" }

Min(S) == CHOOSE x \in S : \A y \in S : x <= y
Max(S) == CHOOSE x \in S : \A y \in S : x >= y

\* text[i] is one of the words
IsWord(text, i, words) == i \in DOMAIN text /\ text[i].t = "w" /\ text[i].w \in words

\* \d+\.\d+\.\d+\.\d+ matches at the start of text[i], and takes all of it
IsQuadAt(text, i) == i \in DOMAIN text /\ text[i].t = "ip"

\* the words of phrase, one space apart, from text[i] on
PhraseAt(text, i, phrase) == \A k \in DOMAIN phrase : IsWord(text, i + k - 1, {phrase[k]})

\* '.' matches no line break: text[i..j] lies on one line
OnOneLine(text, i, j) == \A k \in i..j : k \in DOMAIN text /\ text[k].t # "nl"

NoMatch == [hit |-> FALSE, g1 |-> NoneTok, g2 |-> NoneTok]

Match(g1, g2) == [hit |-> TRUE, g1 |-> g1, g2 |-> g2]

\* ' from (\d+\.\d+\.\d+\.\d+)' or 'from (..)' reached from position i through
\* a greedy '.+' or '.*': the positions of the word before the address
FromQuadAfter(text, i, first) ==
    { j \in DOMAIN text : j >= first /\ IsWord(text, j, {"from"})
                            /\ IsQuadAt(text, j + 1) /\ OnOneLine(text, i, j + 1) }

\* "Failed password for .+ from (\d+\.\d+\.\d+\.\d+)"
ssh_failed_login(text) ==
    LET starts == { i \in DOMAIN text : /\ PhraseAt(text, i, <<"Failed", "password", "for">>)
                                        /\ FromQuadAfter(text, i, i + 4) # {} }
    IN  IF starts = {} THEN NoMatch
        ELSE Match(text[Max(FromQuadAfter(text, Min(starts), Min(starts) + 4)) + 1], NoneTok)

\* "repeated login failures from (\d+\.\d+\.\d+\.\d+)"
ssh_repeated_login(text) ==
    LET starts == { i \in DOMAIN text : /\ PhraseAt(text, i, <<"repeated", "login", "failures", "from">>)
                                        /\ IsQuadAt(text, i + 4) }
    IN  IF starts = {} THEN NoMatch ELSE Match(text[Min(starts) + 4], NoneTok)

\* '(?:to|dest) (\d+..)' reached from i through a greedy '.*'
ToQuadAfter(text, i, first) ==
    { j \in DOMAIN text : j >= first /\ IsWord(text, j, {"to", "dest"})
                            /\ IsQuadAt(text, j + 1) /\ OnOneLine(text, i, j + 1) }

\* "blocked (?:from|source) (\d+\.\d+\.\d+\.\d+).*(?:to|dest) (\d+\.\d+\.\d+\.\d+)"
firewall_block(text) ==
    LET starts == { i \in DOMAIN text : /\ IsWord(text, i, {"blocked"})
                                        /\ IsWord(text, i + 1, {"from", "source"})
                                        /\ IsQuadAt(text, i + 2)
                                        /\ ToQuadAfter(text, i, i + 3) # {} }
    IN  IF starts = {} THEN NoMatch
        ELSE Match(text[Min(starts) + 2],
                   text[Max(ToQuadAfter(text, Min(starts), Min(starts) + 3)) + 1])

\* "scan from (\d+\.\d+\.\d+\.\d+)"
port_scan(text) ==
    LET starts == { i \in DOMAIN text : /\ PhraseAt(text, i, <<"scan", "from">>)
                                        /\ IsQuadAt(text, i + 2) }
    IN  IF starts = {} THEN NoMatch ELSE Match(text[Min(starts) + 2], NoneTok)

\* "(SQL injection|XSS|CSRF|directory traversal|file inclusion).*from (\d+\.\d+\.\d+\.\d+)"
\* (of the labels the vocabulary spells "SQL injection" only)
web_attack(text) ==
    LET starts == { i \in DOMAIN text : /\ PhraseAt(text, i, <<"SQL", "injection">>)
                                        /\ FromQuadAfter(text, i, i + 2) # {} }
    IN  IF starts = {} THEN NoMatch
        ELSE Match([t |-> "w", w |-> "SQL injection", ip |-> << >>],
                   text[Max(FromQuadAfter(text, Min(starts), Min(starts) + 2)) + 1])

\* "(?:trojan|virus|malware|ransomware|backdoor) .*?(\d+\.\d+\.\d+\.\d+)": the
\* lazy '.*?' stops at the first address after the keyword
malware(text) ==
    LET after(i) == { j \in DOMAIN text : j > i /\ IsQuadAt(text, j) /\ OnOneLine(text, i, j) }
        starts == { i \in DOMAIN text : IsWord(text, i, {"trojan", "virus", "malware", "ransomware", "backdoor"}) /\ after(i) # {} }
    IN  IF starts = {} THEN NoMatch ELSE Match(text[Min(after(Min(starts)))], NoneTok)

\* "(DoS|DDoS|flood).*from (\d+\.\d+\.\d+\.\d+)": group 1 is the keyword
dos_attack(text) ==
    LET starts == { i \in DOMAIN text : /\ IsWord(text, i, {"DoS", "DDoS", "flood"})
                                        /\ FromQuadAfter(text, i, i + 1) # {} }
    IN  IF starts = {} THEN NoMatch
        ELSE Match(text[Min(starts)],
                   text[Max(FromQuadAfter(text, Min(starts), Min(starts) + 1)) + 1])

\* ATTACK_PATTERNS, in the order of the dict
ATTACK_PATTERNS ==
    <<"ssh_failed_login", "ssh_repeated_login", "firewall_block", "port_scan",
      "web_attack", "malware", "dos_attack">>

\* re.search(ATTACK_PATTERNS[attack_type], log_line, re.IGNORECASE)
SearchAttack(attack_type, text) ==
    CASE attack_type = "ssh_failed_login" -> ssh_failed_login(text)
      [] attack_type = "ssh_repeated_login" -> ssh_repeated_login(text)
      [] attack_type = "firewall_block" -> firewall_block(text)
      [] attack_type = "port_scan" -> port_scan(text)
      [] attack_type = "web_attack" -> web_attack(text)
      [] attack_type = "malware" -> malware(text)
      [] attack_type = "dos_attack" -> dos_attack(text)

\* len(match.groups()): the capture groups of the pattern
GroupCount(attack_type) ==
    IF attack_type \in {"firewall_block", "web_attack", "dos_attack"} THEN 2 ELSE 1

\* _get_attack_type_name: the friendly names, written here in English
attack_names(attack_type) ==
    CASE attack_type = "ssh_failed_login" -> "SSH login failed"
      [] attack_type = "ssh_repeated_login" -> "repeated SSH login failures"
      [] attack_type = "firewall_block" -> "firewall block"
      [] attack_type = "port_scan" -> "port scan"
      [] attack_type = "web_attack" -> "web application attack"
      [] attack_type = "malware" -> "malware"
      [] attack_type = "dos_attack" -> "denial of service attack"
      [] OTHER -> attack_type

Label(s) == [t |-> "w", w |-> s, ip |-> << >>]

\* THREAT_SIGNATURES, in the order of the dict
THREAT_SIGNATURES ==
    <<"sql_injection", "xss", "command_injection", "file_inclusion", "bruteforce",
      "privilege_escalation">>

\* the phrases of the vocabulary in which the pattern of a signature matches:
\* "SQL injection" for sql_injection, "login failure(s)" and "brute force" for
\* bruteforce; no word of the vocabulary holds a literal of the other four
SignaturePhrases(sig_name) ==
    CASE sig_name = "sql_injection" -> { <<"SQL", "injection">> }
      [] sig_name = "bruteforce" -> { <<"login", "failures">>, <<"brute", "force">> }
      [] OTHER -> {}

\* re.search(sig_info["pattern"], log_line, re.IGNORECASE)
SearchSignature(sig_name, text) ==
    \E phrase \in SignaturePhrases(sig_name) : \E i \in DOMAIN text : PhraseAt(text, i, phrase)

\* sig_info["severity"] and sig_info["description"], written here in English
SignatureSeverity(sig_name) ==
    IF sig_name \in {"xss", "bruteforce"} THEN "medium" ELSE "high"

SignatureDescription(sig_name) ==
    CASE sig_name = "sql_injection" -> "SQL injection attempt"
      [] sig_name = "xss" -> "cross-site scripting (XSS) attempt"
      [] sig_name = "command_injection" -> "command injection attempt"
      [] sig_name = "file_inclusion" -> "file inclusion or path traversal attempt"
      [] sig_name = "bruteforce" -> "brute force or password guessing attack"
      [] sig_name = "privilege_escalation" -> "privilege escalation attempt"

----------------------------------------------------------------------------
(* LogParser: enrichment *)

\* an attack-pattern pass without the break: every pattern that matches writes
\* the row, in catalog order
RECURSIVE AttackPass_every_match(_, _, _)
AttackPass_every_match(row, text, n) ==
    IF n > Len(ATTACK_PATTERNS) THEN row
    ELSE LET attack_type == ATTACK_PATTERNS[n]
             match == SearchAttack(attack_type, text)
         IN  IF ~match.hit THEN AttackPass_every_match(row, text, n + 1)
             ELSE IF attack_type = "firewall_block" /\ GroupCount(attack_type) >= 2
             THEN AttackPass_every_match(
                    [row EXCEPT !.attacker_ip = match.g1, !.target_ip = match.g2,
                                !.threat_type = Label("firewall block")], text, n + 1)
             ELSE IF attack_type = "web_attack" /\ GroupCount(attack_type) >= 2
             THEN AttackPass_every_match(
                    [row EXCEPT !.attacker_ip = match.g2, !.threat_type = match.g1],
                    text, n + 1)
             ELSE AttackPass_every_match(
                    [row EXCEPT !.attacker_ip = match.g1,
                                !.threat_type = Label(attack_names(attack_type))],
                    text, n + 1)

\* the attack-pattern pass of _enhance_log_analysis on one row: the first
\* pattern of the catalog that matches writes the row
RECURSIVE AttackPass(_, _, _)
AttackPass(row, text, n) ==
    IF n > Len(ATTACK_PATTERNS) THEN row
    ELSE LET attack_type == ATTACK_PATTERNS[n]
             match == SearchAttack(attack_type, text)
         IN  IF ~match.hit THEN AttackPass(row, text, n + 1)
             ELSE IF attack_type = "firewall_block" /\ GroupCount(attack_type) >= 2
             THEN [row EXCEPT !.attacker_ip = match.g1, !.target_ip = match.g2,
                              !.threat_type = Label("firewall block")]
             ELSE IF attack_type = "web_attack" /\ GroupCount(attack_type) >= 2
             THEN [row EXCEPT !.attacker_ip = match.g2, !.threat_type = match.g1]
             ELSE [row EXCEPT !.attacker_ip = match.g1,
                              !.threat_type = Label(attack_names(attack_type))]

\* the threat-signature pass on one row
RECURSIVE SignaturePass(_, _, _)
SignaturePass(row, text, n) ==
    IF n > Len(THREAT_SIGNATURES) THEN row
    ELSE IF SearchSignature(THREAT_SIGNATURES[n], text)
    THEN [row EXCEPT !.threat_description = Label(SignatureDescription(THREAT_SIGNATURES[n])),
                     !.severity = Label(SignatureSeverity(THREAT_SIGNATURES[n]))]
    ELSE SignaturePass(row, text, n + 1)

\* re.findall(r'\b(?:\d{1,3}\.){3}\d{1,3}\b', log_line): the positions of the
\* dotted quads whose numbers have at most three digits
ip_addresses(text) ==
    LET RECURSIVE from(_)
        from(i) == IF i > Len(text) THEN << >>
                   ELSE IF text[i].t = "ip" /\ \A k \in 1..4 : text[i].ip[k] < 1000
                   THEN <<text[i]>> \o from(i + 1)
                   ELSE from(i + 1)
    IN  from(1)

\* the words of the vocabulary that hold a keyword of each list of
\* _identify_ip_relationships
SourceWords == { "from" }
DestWords == { "to" }
AttackWords == { "Failed", "scan", "blocked", "brute", "force" }
VictimWords == { }

HasWord(text, words) == \E i \in DOMAIN text : IsWord(text, i, words)

\* re.search(rf'(?:keywords).*?{re.escape(ip)}', log_line): a keyword, and
\* later on the same line the digits of ip
KeywordThen(text, words, ip) ==
    \E i, j \in DOMAIN text :
        /\ i < j
        /\ IsWord(text, i, words)
        /\ text[j].t = "ip" /\ OccursIn(ip.ip, text[j].ip)
        /\ OnOneLine(text, i, j)

\* the first ip of ips for which KeywordThen holds; NoneTok when none
RECURSIVE FirstKeywordThen(_, _, _, _)
FirstKeywordThen(text, words, ips, i) ==
    IF i > Len(ips) THEN NoneTok
    ELSE IF KeywordThen(text, words, ips[i]) THEN ips[i]
    ELSE FirstKeywordThen(text, words, ips, i + 1)

\* _identify_ip_relationships on one row
identify_ip_relationships(row, text) ==
    LET ips == ip_addresses(text)
    IN  IF Len(ips) < 1 THEN row
        ELSE IF Len(ips) >= 2
        THEN LET src == IF HasWord(text, SourceWords) /\ row.attacker_ip = NoneTok
                        THEN FirstKeywordThen(text, SourceWords, ips, 1) ELSE NoneTok
                 row1 == IF src # NoneTok THEN [row EXCEPT !.attacker_ip = src] ELSE row
                 dst == IF HasWord(text, DestWords) /\ row1.target_ip = NoneTok
                        THEN FirstKeywordThen(text, DestWords, ips, 1) ELSE NoneTok
                 row2 == IF dst # NoneTok THEN [row1 EXCEPT !.target_ip = dst] ELSE row1
             IN  IF row2.attacker_ip = NoneTok /\ row2.target_ip = NoneTok
                 THEN [row2 EXCEPT !.attacker_ip = ips[1], !.target_ip = ips[2]]
                 ELSE row2
        ELSE IF HasWord(text, AttackWords)
        THEN IF row.attacker_ip = NoneTok THEN [row EXCEPT !.attacker_ip = ips[1]] ELSE row
        ELSE IF HasWord(text, VictimWords)
        THEN IF row.target_ip = NoneTok THEN [row EXCEPT !.target_ip = ips[1]] ELSE row
        ELSE row

\* the column _enhance_log_analysis inspects
text_column(frame) == IF frame.columns = "raw_log" THEN "raw_log" ELSE "message"

InspectedText(frame, row) == IF text_column(frame) = "raw_log" THEN row.raw_log ELSE row.message

\* a loop body that looks for a threat signature only when no attack pattern
\* matched
EnhanceRow_signature_unless_attack(row, text) ==
    LET attacked == AttackPass(row, text, 1)
        passed == IF attacked.threat_type # NoneTok THEN attacked
                  ELSE SignaturePass(attacked, text, 1)
    IN  IF passed.attacker_ip = NoneTok \/ passed.target_ip = NoneTok
        THEN identify_ip_relationships(passed, text)
        ELSE passed

\* the body of the loop of _enhance_log_analysis
EnhanceRow(row, text) ==
    LET passed == SignaturePass(AttackPass(row, text, 1), text, 1)
    IN  IF passed.attacker_ip = NoneTok \/ passed.target_ip = NoneTok
        THEN identify_ip_relationships(passed, text)
        ELSE passed

\* dataframe.at[i, field] = value
Assign(field, value) == [field |-> field, value |-> value]

\* the row after the assignments, made in order
RECURSIVE Replay(_, _)
Replay(row, assignments) ==
    IF assignments = << >> THEN row
    ELSE Replay([row EXCEPT ![Head(assignments).field] = Head(assignments).value],
                Tail(assignments))

\* the assignments the attack-pattern pass makes, in the order of the code
RECURSIVE AttackAssignments(_, _)
AttackAssignments(text, n) ==
    IF n > Len(ATTACK_PATTERNS) THEN << >>
    ELSE LET attack_type == ATTACK_PATTERNS[n]
             match == SearchAttack(attack_type, text)
         IN  IF ~match.hit THEN AttackAssignments(text, n + 1)
             ELSE IF attack_type = "firewall_block" /\ GroupCount(attack_type) >= 2
             THEN <<Assign("attacker_ip", match.g1), Assign("target_ip", match.g2),
                    Assign("threat_type", Label("firewall block"))>>
             ELSE IF attack_type = "web_attack" /\ GroupCount(attack_type) >= 2
             THEN <<Assign("attacker_ip", match.g2), Assign("threat_type", match.g1)>>
             ELSE <<Assign("attacker_ip", match.g1),
                    Assign("threat_type", Label(attack_names(attack_type)))>>

\* the assignments the threat-signature pass makes
RECURSIVE SignatureAssignments(_, _)
SignatureAssignments(text, n) ==
    IF n > Len(THREAT_SIGNATURES) THEN << >>
    ELSE IF SearchSignature(THREAT_SIGNATURES[n], text)
    THEN <<Assign("threat_description", Label(SignatureDescription(THREAT_SIGNATURES[n]))),
           Assign("severity", Label(SignatureSeverity(THREAT_SIGNATURES[n])))>>
    ELSE SignatureAssignments(text, n + 1)

\* the assignments _identify_ip_relationships makes on a row
RelationAssignments(row, text) ==
    LET ips == ip_addresses(text)
        src == IF HasWord(text, SourceWords)
               THEN FirstKeywordThen(text, SourceWords, ips, 1) ELSE NoneTok
        dst == IF HasWord(text, DestWords)
               THEN FirstKeywordThen(text, DestWords, ips, 1) ELSE NoneTok
        first == IF src # NoneTok /\ row.attacker_ip = NoneTok
                 THEN <<Assign("attacker_ip", src)>> ELSE << >>
        second == IF dst # NoneTok /\ row.target_ip = NoneTok
                  THEN <<Assign("target_ip", dst)>> ELSE << >>
        row2 == Replay(row, first \o second)
    IN  IF Len(ips) < 1 THEN << >>
        ELSE IF Len(ips) >= 2
        THEN first \o second \o
             (IF row2.attacker_ip = NoneTok /\ row2.target_ip = NoneTok
              THEN <<Assign("attacker_ip", ips[1]), Assign("target_ip", ips[2])>>
              ELSE << >>)
        ELSE IF HasWord(text, AttackWords)
        THEN IF row.attacker_ip = NoneTok THEN <<Assign("attacker_ip", ips[1])>> ELSE << >>
        ELSE IF HasWord(text, VictimWords)
        THEN IF row.target_ip = NoneTok THEN <<Assign("target_ip", ips[1])>> ELSE << >>
        ELSE << >>

\* the assignments of one pass of the loop of _enhance_log_analysis
EnhanceAssignments(row, text) ==
    LET both == AttackAssignments(text, 1) \o SignatureAssignments(text, 1)
        passed == Replay(row, both)
    IN  IF passed.attacker_ip = NoneTok \/ passed.target_ip = NoneTok
        THEN both \o RelationAssignments(passed, text)
        ELSE both

\* _enhance_log_analysis
enhance_log_analysis(frame) ==
    [frame EXCEPT !.rows = [i \in DOMAIN frame.rows |->
                               EnhanceRow(frame.rows[i], InspectedText(frame, frame.rows[i]))]]

\* parse_file on a .log, .txt or other line-oriented file
parse_file(ls) == enhance_log_analysis(parse_log_or_txt(ls))

----------------------------------------------------------------------------
(* LogParser.get_security_summary *)

\* the default of row.get('threat_type', ...) and of row.get('severity', ...)
UnknownThreat == Label("unknown threat")
Unknown == Label("unknown")

\* {"high": 0, "medium": 0, "low": 0, "unknown": 0}
severity_counts ==
    << [k |-> Label("high"), v |-> 0], [k |-> Label("medium"), v |-> 0],
       [k |-> Label("low"), v |-> 0], [k |-> Unknown, v |-> 0] >>

\* bool(value) of a cell: None is false, the strings the enrichment writes are
\* not empty
Truthy(cell) == cell # NoneTok

\* row.get(key, default) where the row has the key: the cell, None included;
\* the default is for a row without the key, and _enhance_log_analysis gives
\* every row the five annotation keys
RowGet(cell, default) == cell

\* a tally that leaves out the key None
Tally_named(d, key) ==
    IF key = NoneTok THEN d
    ELSE DictSet(d, key, (IF DictHas(d, key) THEN DictGet(d, key) ELSE 0) + 1)

\* d[key] = d.get(key, 0) + 1
Tally(d, key) == DictSet(d, key, (IF DictHas(d, key) THEN DictGet(d, key) ELSE 0) + 1)

\* a sort that is not stable: among equal counts the key seen last comes first
RECURSIVE SortedByCount_last_first(_)
SortedByCount_last_first(d) ==
    IF d = << >> THEN << >>
    ELSE LET most == Max({ d[i].v : i \in DOMAIN d })
             i == Max({ j \in DOMAIN d : d[j].v = most })
         IN  <<d[i]>> \o SortedByCount_last_first(SubSeq(d, 1, i - 1) \o SubSeq(d, i + 1, Len(d)))

\* dict(sorted(d.items(), key=lambda x: x[1], reverse=True)): the sort is
\* stable, equal counts keep their order
RECURSIVE SortedByCount(_)
SortedByCount(d) ==
    IF d = << >> THEN << >>
    ELSE LET most == Max({ d[i].v : i \in DOMAIN d })
             i == Min({ j \in DOMAIN d : d[j].v = most })
         IN  <<d[i]>> \o SortedByCount(SubSeq(d, 1, i - 1) \o SubSeq(d, i + 1, Len(d)))

\* a loop that takes the addresses of every row, identified threat or not
RECURSIVE SummaryFrom_every_row(_, _, _)
SummaryFrom_every_row(rows, i, sm) ==
    IF i > Len(rows) THEN sm
    ELSE LET row == rows[i]
             seen == [sm EXCEPT
                        !.unique_attackers =
                            IF Truthy(row.attacker_ip) THEN @ \cup {row.attacker_ip} ELSE @,
                        !.unique_targets =
                            IF Truthy(row.target_ip) THEN @ \cup {row.target_ip} ELSE @]
         IN  IF Truthy(row.threat_type) \/ Truthy(row.threat_description)
             THEN SummaryFrom_every_row(rows, i + 1,
                    [seen EXCEPT
                       !.identified_threats = @ + 1,
                       !.threat_types = Tally(@, RowGet(row.threat_type, UnknownThreat)),
                       !.severity_counts = Tally(@, RowGet(row.severity, Unknown))])
             ELSE SummaryFrom_every_row(rows, i + 1, seen)

\* the loop of get_security_summary from row i on
RECURSIVE SummaryFrom(_, _, _)
SummaryFrom(rows, i, sm) ==
    IF i > Len(rows) THEN sm
    ELSE LET row == rows[i]
         IN  IF Truthy(row.threat_type) \/ Truthy(row.threat_description)
             THEN SummaryFrom(rows, i + 1,
                    [sm EXCEPT
                       !.identified_threats = @ + 1,
                       !.unique_attackers =
                           IF Truthy(row.attacker_ip) THEN @ \cup {row.attacker_ip} ELSE @,
                       !.unique_targets =
                           IF Truthy(row.target_ip) THEN @ \cup {row.target_ip} ELSE @,
                       !.threat_types = Tally(@, RowGet(row.threat_type, UnknownThreat)),
                       !.severity_counts = Tally(@, RowGet(row.severity, Unknown))])
             ELSE SummaryFrom(rows, i + 1, sm)

\* get_security_summary(dataframe) on a DataFrame parse_file returned; the
\* two lists made from sets are kept as sets, their order is not defined
get_security_summary(frame) ==
    LET sm == SummaryFrom(frame.rows, 1,
                 [total_entries |-> Len(frame.rows), identified_threats |-> 0,
                  unique_attackers |-> {}, unique_targets |-> {},
                  threat_types |-> << >>, severity_counts |-> severity_counts])
    IN  [sm EXCEPT !.threat_types = SortedByCount(@)]

\* no summary
NoSummary ==
    [total_entries |-> 0, identified_threats |-> 0, unique_attackers |-> {},
     unique_targets |-> {}, threat_types |-> << >>, severity_counts |-> << >>]

----------------------------------------------------------------------------
(* LogParser._parse_csv                                                    *)
(*                                                                         *)
(* A line of a delimited file is a sequence of field words and delimiter   *)
(* characters, without its line break. What is kept of a DataFrame is the  *)
(* number of its columns and of its rows. The files are shorter than the   *)
(* 4096 characters of the sample, and none has a quote character.          *)

\* a delimiter character in a line
D(c) == [t |-> "d", w |-> c, ip |-> << >>]

\* delimiters = [',', ';', '\t', '|']
delimiters == <<",", ";", "\t", "|">>

\* line.count(sep)
CountOf(line, sep) == Cardinality({ i \in DOMAIN line : line[i] = D(sep) })

\* the number of fields of the line when it is split at sep
FieldCount(line, sep) == CountOf(line, sep) + 1

\* pd.read_csv(file_path, sep=sep): the first line names the columns; a line
\* with fewer fields than expected is filled up; a line after the first data
\* line with more fields than the lines before it raises ParserError, and so
\* does an empty file (EmptyDataError)
read_csv(file, sep) ==
    LET expected == IF Len(file) >= 2
                    THEN Max({FieldCount(file[1], sep), FieldCount(file[2], sep)})
                    ELSE 0
    IN  [raised |-> \/ file = << >>
                    \/ \E i \in 3..Len(file) : FieldCount(file[i], sep) > expected,
         columns |-> IF file = << >> THEN 0 ELSE FieldCount(file[1], sep),
         rows |-> IF file = << >> THEN 0 ELSE Len(file) - 1]

\* csv.Sniffer().sniff(sample, delimiters=delimiter) raises csv.Error: for a
\* sample of fewer than twenty lines without quotes the delimiter is found
\* when it occurs, the same number of times, in each of the first ten lines
SniffRaises(sample, delimiter) ==
    \/ sample = << >>
    \/ CountOf(sample[1], delimiter) = 0
    \/ \E i \in 1..Min({10, Len(sample)}) :
          CountOf(sample[i], delimiter) # CountOf(sample[1], delimiter)

\* max(len(row) for row in reader)
SampleColumns(sample, delimiter) ==
    Max({ FieldCount(sample[i], delimiter) : i \in DOMAIN sample })

\* the loop over the delimiters: best_delimiter after delimiters[n..]
RECURSIVE BestDelimiter(_, _, _, _)
BestDelimiter(sample, n, best_delimiter, max_columns) ==
    IF n > Len(delimiters) THEN best_delimiter
    ELSE IF SampleColumns(sample, delimiters[n]) > max_columns
    THEN BestDelimiter(sample, n + 1, delimiters[n], SampleColumns(sample, delimiters[n]))
    ELSE BestDelimiter(sample, n + 1, best_delimiter, max_columns)

\* no DataFrame of a delimited file
NoCsv == [raised |-> FALSE, fallback |-> FALSE, sep |-> "", columns |-> 0, rows |-> 0]

\* _parse_csv: fallback is TRUE when the first read_csv raised, sep is the
\* delimiter of the read_csv that returned
parse_csv(file) ==
    LET first == read_csv(file, ",")
        best == BestDelimiter(file, 1, ",", 0)
        second == read_csv(file, best)
    IN  IF ~first.raised
        THEN [raised |-> FALSE, fallback |-> FALSE, sep |-> ",",
              columns |-> first.columns, rows |-> first.rows]
        ELSE IF \E n \in DOMAIN delimiters : SniffRaises(file, delimiters[n])
        THEN [NoCsv EXCEPT !.raised = TRUE, !.fallback = TRUE]
        ELSE IF second.raised
        THEN [NoCsv EXCEPT !.raised = TRUE, !.fallback = TRUE, !.sep = best]
        ELSE [raised |-> FALSE, fallback |-> TRUE, sep |-> best,
              columns |-> second.columns, rows |-> second.rows]

----------------------------------------------------------------------------
(* The parser's specification: a file is chosen and parsed *)

SshLine ==
    <<W("sshd:"), W("Failed"), W("password"), W("for"), W("root"), W("from"),
      Q(203, 0, 113, 7), W("port"), W("22"), NL>>

\* the lines a file is made of
Lines ==
    { SshLine,
      <<TS("syslog")>> \o SshLine,
      <<W("blocked"), W("from"), Q(203, 0, 113, 7), W("to"), Q(8, 8, 8, 8), NL>>,
      <<TS("iso"), W("blocked"), W("from"), Q(203, 0, 113, 7), W("to"), Q(8, 8, 8, 8), NL>>,
      <<W("SQL"), W("injection"), W("attempt"), W("from"), Q(203, 0, 113, 7), NL>>,
      <<W("DDoS"), W("flood"), W("from"), Q(203, 0, 113, 7), NL>>,
      <<W("malware"), W("beacon"), Q(8, 8, 8, 8), NL>>,
      <<W("port"), W("scan"), W("from"), Q(999, 1, 1, 1), NL>>,
      <<W("repeated"), W("login"), W("failures"), W("from"), Q(8, 8, 8, 8), NL>>,
      <<W("connection"), Q(8, 8, 8, 8), W("to"), Q(300, 1, 1, 1), NL>>,
      <<W("link"), W("up"), NL>>,
      <<TS("syslog"), W("link"), W("up"), NL>>,
      <<TS("spaced"), W("link"), W("up"), NL>>,
      <<TS("syslog"), W("link"), TS("apache"), W("up"), NL>>,
      <<W("link"), TS("apache"), W("up"), NL>>,
      <<W("login"), W("failures"), W("for"), W("root"), NL>>,
      <<W("sshd:"), W("Failed"), W("password"), W("for"), W("root"), W("from"),
        Q(203, 0, 113, 7), W("port"), W("22"), W("brute"), W("force"), NL>>,
      <<W("malware"), W("scan"), W("from"), Q(203, 0, 113, 7), W("to"), Q(8, 8, 8, 8), NL>>,
      <<W("connection"), Q(8, 8, 8, 8), Q(9, 9, 9, 9), W("from"), W("link"), NL>>,
      <<W("connection"), Q(9, 9, 9, 9), W("from"), Q(8, 8, 8, 8), Q(9, 9, 9, 9), NL>>,
      <<W("connection"), Q(1, 2, 3, 4), W("from"), Q(11, 2, 3, 45), NL>> }

RECURSIVE FilesOfLength(_)
FilesOfLength(n) ==
    IF n = 0 THEN { << >> }
    ELSE { Append(f, l) : f \in FilesOfLength(n - 1), l \in Lines }

Files == UNION { FilesOfLength(n) : n \in 0..MaxFileLines }

\* n times the line l
RECURSIVE Repeat(_, _)
Repeat(l, n) == IF n = 0 THEN << >> ELSE <<l>> \o Repeat(l, n - 1)

\* the line a long file starts with, nine times over
LongHeads ==
    { <<TS("syslog")>> \o SshLine,
      <<TS("syslog"), W("link"), TS("apache"), W("up"), NL>>,
      <<W("link"), W("up"), NL>> }

\* the lines a long file goes on with
TailLines ==
    { SshLine,
      <<TS("syslog")>> \o SshLine,
      <<W("link"), W("up"), NL>>,
      <<TS("syslog"), W("link"), W("up"), NL>>,
      <<TS("syslog"), W("link"), TS("apache"), W("up"), NL>>,
      <<W("link"), TS("apache"), W("up"), NL>>,
      <<TS("iso"), W("blocked"), W("from"), Q(203, 0, 113, 7), W("to"), Q(8, 8, 8, 8), NL>> }

RECURSIVE TailsOfLength(_)
TailsOfLength(n) ==
    IF n = 0 THEN { << >> }
    ELSE { Append(f, l) : f \in TailsOfLength(n - 1), l \in TailLines }

\* files of ten lines and more: nine or ten times the same line, then the
\* lines of a tail, which lie at the end of the sample or after it
LongFiles ==
    { Repeat(h, k) \o tail :
        h \in LongHeads, k \in {SampleSize - 1, SampleSize},
        tail \in UNION { TailsOfLength(n) : n \in 1..MaxFileLines } }

\* the lines of a file of threats: an attack pattern, another attack pattern,
\* a signature without attack pattern (no threat_type), and a line that is
\* no threat
TallyLines ==
    { SshLine,
      <<W("malware"), W("scan"), W("from"), Q(203, 0, 113, 7), W("to"), Q(8, 8, 8, 8), NL>>,
      <<W("login"), W("failures"), W("for"), W("root"), NL>>,
      <<W("link"), W("up"), NL>> }

RECURSIVE TalliesOfLength(_)
TalliesOfLength(n) ==
    IF n = 0 THEN { << >> }
    ELSE { Append(f, l) : f \in TalliesOfLength(n - 1), l \in TallyLines }

\* files long enough for a threat type seen later to be counted more often
\* than two seen before it
TallyFiles == TalliesOfLength(MaxFileLines + 2)

\* the words of fields joined by the delimiter
RECURSIVE Joined(_, _)
Joined(fields, delimiter) ==
    IF Len(fields) = 1 THEN <<W(fields[1])>>
    ELSE <<W(fields[1]), D(delimiter)>> \o Joined(Tail(fields), delimiter)

\* a file of n lines of k columns: the names, then n - 1 times the same values
CleanFile(delimiter, k, n) ==
    <<Joined(SubSeq(<<"a", "b", "c", "d">>, 1, k), delimiter)>>
        \o Repeat(Joined(SubSeq(<<"1", "2", "3", "4">>, 1, k), delimiter), n - 1)

CleanFiles ==
    { CleanFile(delimiters[d], k, n) :
        d \in DOMAIN delimiters, k \in 1..MaxCsvColumns, n \in 1..MaxCsvLines }

\* a line with each of the four delimiters in it: a,b;c;d;e<tab>f|g
AllFour ==
    <<W("a"), D(","), W("b"), D(";"), W("c"), D(";"), W("d"), D(";"), W("e"), D("\t"),
      W("f"), D("|"), W("g")>>

\* lines in which more than one delimiter character occurs
MixedLines ==
    { AllFour,
      <<W("x"), D(",")>> \o AllFour,
      <<W("x"), D(","), W("y"), D(","), W("z"), D(","), W("u"), D(",")>> \o AllFour,
      <<W("a"), D(";"), W("b")>>,
      <<W("1"), D(","), W("5"), D(";"), W("2")>>,
      <<W("1"), D(","), W("5"), D(","), W("7"), D(";"), W("2")>> }

RECURSIVE MixedOfLength(_)
MixedOfLength(n) ==
    IF n = 0 THEN { << >> }
    ELSE { Append(f, l) : f \in MixedOfLength(n - 1), l \in MixedLines }

\* the empty file, short files of mixed lines, and files of eleven lines that
\* differ in the last
MixedFiles ==
    UNION { MixedOfLength(n) : n \in 0..MaxCsvLines }
        \cup { Repeat(AllFour, 10) \o <<l>> : l \in MixedLines }

CsvFiles == CleanFiles \cup MixedFiles

ParserIdle ==
    /\ lines = << >> /\ df = NoFrame /\ summary = NoSummary
    /\ csv_lines = << >> /\ csv_df = NoCsv

MaskerIdle ==
    /\ max_mappings = MinMaxMappings
    /\ store = NoFile
    /\ mapping = << >>
    /\ reverse_mapping = << >>
    /\ alive = TRUE
    /\ ret = NoCall
    /\ unsaved = {}

\* a file is chosen
ParserInit ==
    /\ lines \in Files \cup LongFiles \cup TallyFiles /\ df = NoFrame /\ summary = NoSummary
    /\ csv_lines = << >> /\ csv_df = NoCsv

\* a delimited file is chosen
CsvInit ==
    /\ lines = << >> /\ df = NoFrame /\ summary = NoSummary
    /\ csv_lines \in CsvFiles /\ csv_df = NoCsv

\* LogParser.parse_file(file_path)
ParseFile ==
    /\ df = NoFrame
    /\ df' = parse_file(lines)
    /\ UNCHANGED <<lines, summary, csv_lines, csv_df>>

\* LogParser.get_security_summary(df)
GetSecuritySummary ==
    /\ df # NoFrame
    /\ summary = NoSummary
    /\ summary' = get_security_summary(df)
    /\ UNCHANGED <<lines, df, csv_lines, csv_df>>

\* LogParser._parse_csv(file_path)
ParseCsv ==
    /\ csv_df = NoCsv
    /\ csv_df' = parse_csv(csv_lines)
    /\ csv_df' # NoCsv
    /\ UNCHANGED <<lines, df, summary, csv_lines>>

----------------------------------------------------------------------------
(* MainWindow: what the window hands to the analysis service               *)
(*                                                                         *)
(* The handlers of the window run with a writable mapping file; writes     *)
(* that fail are the subject of the masker's own actions above.            *)

\* str.strip(): the line breaks at both ends are dropped
RECURSIVE strip(_)
strip(text) ==
    IF text = << >> THEN text
    ELSE IF Head(text).t = "nl" THEN strip(Tail(text))
    ELSE IF text[Len(text)].t = "nl" THEN strip(SubSeq(text, 1, Len(text) - 1))
    ELSE text

\* DataFrame.head(100)
HeadRows == 100

head(rows) == SubSeq(rows, 1, Min({HeadRows, Len(rows)}))

\* ''.join(log_data['raw_log'].head(100).tolist())
RECURSIVE join_raw_log(_)
join_raw_log(rows) ==
    IF rows = << >> THEN << >> ELSE Head(rows).raw_log \o join_raw_log(Tail(rows))

\* a cell as DataFrame.to_string() prints it: None for an absent value, the
\* line breaks of a string escaped into the words around them
Cell(tok) == IF tok = NoneTok THEN <<W("None")>> ELSE <<tok>>

TextCell(text) == SelectSeq(text, LAMBDA tok : tok.t # "nl")

\* log_data.head(100).to_string(): the header, then a line per record with its
\* index and its cells in the order of the columns
RECURSIVE rows_to_string(_, _)
rows_to_string(rows, i) ==
    IF i > Len(rows) THEN << >>
    ELSE <<W(ToString(i - 1))>> \o TextCell(rows[i].timestamp) \o TextCell(rows[i].message)
         \o Cell(rows[i].attacker_ip) \o Cell(rows[i].target_ip) \o Cell(rows[i].threat_type)
         \o Cell(rows[i].severity) \o Cell(rows[i].threat_description) \o <<NL>>
         \o rows_to_string(rows, i + 1)

to_string(rows) ==
    <<W("timestamp"), W("message"), W("attacker_ip"), W("target_ip"), W("threat_type"),
      W("severity"), W("threat_description"), NL>> \o rows_to_string(rows, 1)

\* the text _update_log_preview, analyze_logs and _get_current_prompt build
\* from log_data
frame_text(frame) ==
    IF frame.columns = "raw_log" THEN join_raw_log(head(frame.rows))
    ELSE to_string(head(frame.rows))

\* log_content of analyze_logs
log_content_of(frame, file_set) ==
    IF frame # NoFrame /\ file_set THEN frame_text(frame) ELSE << >>

\* the masker as a call leaves it, and what the call returned
Kept(m, r, file, text) == [m |-> m, r |-> r, file |-> file, out |-> text]

\* mask_text when the checkbox is checked; the store is writable
masked_if(checked, m, r, file, text) ==
    IF checked THEN mask_text(m, r, file, text, 0, FALSE) ELSE Kept(m, r, file, text)

\* _update_log_preview: with the checkbox checked the preview text goes through
\* mask_text, which creates the pseudonyms of its addresses
update_log_preview(checked, frame, m, r, file) ==
    IF frame = NoFrame THEN Kept(m, r, file, << >>)
    ELSE masked_if(checked, m, r, file, frame_text(frame))

\* the texts typed into the alert box
AlertTexts ==
    { << >>,
      <<W("scan"), W("from"), Q(8, 8, 8, 8), W("to"), Q(10, 0, 1, 0), NL>> }

\* the files opened in the window
GuiFiles == { <<SshLine>>, << <<TS("syslog")>> \o SshLine >> }

\* an AnalyzeThread: its arguments, and how far run() has come
AnalyzeThread(log_content, alert_content, masked) ==
    [state |-> "started", log_content |-> log_content, alert_content |-> alert_content,
     masked |-> masked]

\* MainWindow.__init__ after IPMasker is constructed
GuiIdle ==
    /\ mask_ip_checkbox = TRUE
    /\ alert_edit = << >>
    /\ current_file = FALSE
    /\ analyze_btn = TRUE
    /\ conversation_history = << >>
    /\ in_conversation = FALSE
    /\ analyze_threads = {}


\* the user types a text into the alert box
EditAlert(text) ==
    /\ alive
    /\ text # alert_edit
    /\ alert_edit' = text
    /\ UNCHANGED <<masker_vars, parser_vars, mask_ip_checkbox, current_file, analyze_btn,
                   conversation_history, in_conversation, analyze_threads>>

\* update_ip_masking(checked): the checkbox is toggled and the preview redrawn
update_ip_masking ==
    LET checked == ~mask_ip_checkbox
        res == update_log_preview(checked, df, mapping, reverse_mapping, store)
    IN  /\ alive
        /\ mask_ip_checkbox' = checked
        /\ mapping' = res.m
        /\ reverse_mapping' = res.r
        /\ store' = res.file
        /\ ret' = NoCall
        /\ UNCHANGED <<max_mappings, alive, unsaved, parser_vars, alert_edit, current_file,
                       analyze_btn, conversation_history, in_conversation,
                       analyze_threads>>

\* load_file, LoadFileThread.run and _file_loaded: a file is chosen, parsed by
\* the thread, kept as log_data and previewed (the thread reads and writes
\* nothing of the window before its signal is delivered)
load_file(file) ==
    LET log_data == parse_file(file)
        res == update_log_preview(mask_ip_checkbox, log_data, mapping, reverse_mapping, store)
    IN  /\ alive
        /\ lines' = file
        /\ df' = log_data
        /\ current_file' = TRUE
        /\ analyze_btn' = TRUE
        /\ mapping' = res.m
        /\ reverse_mapping' = res.r
        /\ store' = res.file
        /\ ret' = NoCall
        /\ UNCHANGED <<max_mappings, alive, unsaved, summary, csv_lines, csv_df,
                       mask_ip_checkbox, alert_edit, conversation_history,
                       in_conversation, analyze_threads>>

\* clear_data: the file, its records and the alert text are dropped
clear_data ==
    /\ alive
    /\ ~(~current_file /\ strip(alert_edit) = << >> /\ df = NoFrame)
    /\ current_file' = FALSE
    /\ df' = NoFrame
    /\ alert_edit' = << >>
    /\ analyze_btn' = TRUE
    /\ conversation_history' = << >>
    /\ in_conversation' = FALSE
    /\ UNCHANGED <<masker_vars, lines, summary, csv_lines, csv_df, mask_ip_checkbox,
                   analyze_threads>>

\* analyze_logs: the alert text and the log text are masked when the checkbox
\* is checked; with a provider and its key configured an AnalyzeThread is
\* started on them, and without them the handler returns after the masking
analyze_logs ==
    LET alert_content == strip(alert_edit)
        log_content == log_content_of(df, current_file)
        a == masked_if(mask_ip_checkbox, mapping, reverse_mapping, store, alert_content)
        l == masked_if(mask_ip_checkbox, a.m, a.r, a.file, log_content)
    IN  /\ alive
        /\ analyze_btn
        /\ current_file \/ alert_content # << >>
        /\ mapping' = l.m
        /\ reverse_mapping' = l.r
        /\ store' = l.file
        /\ ret' = NoCall
        /\ UNCHANGED <<max_mappings, alive, unsaved, parser_vars, mask_ip_checkbox, alert_edit,
                       current_file>>
        /\ \/ /\ Cardinality(analyze_threads) < MaxThreads
              /\ analyze_btn' = FALSE
              /\ conversation_history' = << >>
              /\ in_conversation' = FALSE
              /\ analyze_threads' =
                    analyze_threads \cup {AnalyzeThread(l.out, a.out, mask_ip_checkbox)}
           \/ UNCHANGED <<analyze_btn, conversation_history, in_conversation, analyze_threads>>

\* AnalyzeThread.run: create_service raises, or the service is created and
\* analyze_log is called with the log text, the alert text, the prompt and None,
\* one argument more than any analyze_log of ai_service.py takes, and raises;
\* either way the error signal is emitted
AnalyzeThread_run(th) ==
    /\ alive
    /\ th.state = "started"
    /\ \/ analyze_threads' = (analyze_threads \ {th}) \cup {[th EXCEPT !.state = "failed"]}
       \/ analyze_threads' = (analyze_threads \ {th}) \cup {[th EXCEPT !.state = "called"]}
    /\ UNCHANGED <<masker_vars, parser_vars, mask_ip_checkbox, alert_edit, current_file,
                   analyze_btn, conversation_history, in_conversation>>

\* _analysis_error: the slot of the error signal
analysis_error(th) ==
    /\ alive
    /\ th.state \in {"failed", "called"}
    /\ analyze_threads' = analyze_threads \ {th}
    /\ analyze_btn' = TRUE
    /\ UNCHANGED <<masker_vars, parser_vars, mask_ip_checkbox, alert_edit, current_file,
                   conversation_history, in_conversation>>

\* clear_ip_mappings, confirmed: clear_mappings(), then the preview is redrawn
\* when records are loaded and the checkbox is checked
clear_ip_mappings ==
    LET file == IF store.exists THEN save_mapping(<< >>) ELSE store
        res == IF df # NoFrame /\ mask_ip_checkbox
               THEN update_log_preview(TRUE, df, << >>, << >>, file)
               ELSE Kept(<< >>, << >>, file, << >>)
    IN  /\ alive
        /\ mapping' = res.m
        /\ reverse_mapping' = res.r
        /\ store' = res.file
        /\ unsaved' = {}
        /\ ret' = NoCall
        /\ UNCHANGED <<max_mappings, alive, parser_vars, gui_vars>>

\* the application is closed and started again: MainWindow.__init__ constructs
\* IPMasker with the configured maximum; the checkbox takes the saved setting
Relaunch(max) ==
    /\ Restart(max)
    /\ lines' = << >>
    /\ df' = NoFrame
    /\ UNCHANGED <<summary, csv_lines, csv_df>>
    /\ alert_edit' = << >>
    /\ current_file' = FALSE
    /\ analyze_btn' = TRUE
    /\ conversation_history' = << >>
    /\ in_conversation' = FALSE
    /\ analyze_threads' = {}
    /\ UNCHANGED mask_ip_checkbox

GuiNext ==
    \/ \E text \in AlertTexts : EditAlert(text)
    \/ update_ip_masking
    \/ \E file \in GuiFiles : load_file(file)
    \/ clear_data
    \/ analyze_logs
    \/ \E th \in analyze_threads : AnalyzeThread_run(th)
    \/ \E th \in analyze_threads : analysis_error(th)
    \/ clear_ip_mappings
    \/ \E max \in MaxMappingsChoices : Relaunch(max)

----------------------------------------------------------------------------
(* mask_ip on large mappings and on every range of first octets *)

\* original addresses with a first octet at each edge of the four ranges
ClassIPs == { <<f, 1, 2, 3>> : f \in {0, 1, 126, 127, 128, 191, 192, 223, 224, 255} }

\* mapping sizes around the first carry of the counter of the pseudonym
Sizes == {0, 1, 2, 255, 256, 257}

\* the i-th of the addresses 11.0.0.0, 11.0.0.1, ...
Original(i) == <<11, i \div 65536, (i \div 256) % 256, i % 256>>

\* the mapping and the reverse mapping after mask_ip of Original(0), ...,
\* Original(n - 1) on an empty mapping
FilledMapping(n) ==
    [i \in 1..n |-> [k |-> Original(i - 1), v |-> masked_ip(Original(i - 1), i - 1)]]

FilledReverse(n) ==
    [i \in 1..n |-> [k |-> masked_ip(Original(i - 1), i - 1), v |-> Original(i - 1)]]

\* a session that has masked n addresses
ClassesInit ==
    /\ max_mappings \in MaxMappingsChoices
    /\ \E n \in Sizes :
          /\ mapping = FilledMapping(n)
          /\ reverse_mapping = FilledReverse(n)
          /\ store = JsonFile(FilledMapping(n))
    /\ alive = TRUE
    /\ ret = NoCall
    /\ unsaved = {}

\* the next mask_ip of the session
MaskNext(ip) == ret = NoCall /\ MaskIp(ip)

----------------------------------------------------------------------------
(* Specifications *)

\* the pseudonymization engine
Init == MaskerInit /\ ParserIdle /\ GuiIdle

Next ==
    \/ (\E max \in MaxMappingsChoices : Restart(max)) /\ UNCHANGED <<parser_vars, gui_vars>>
    \/ (\E ip \in IPs : MaskIp(ip)) /\ UNCHANGED <<parser_vars, gui_vars>>
    \/ (\E text \in Texts : MaskText(text)) /\ UNCHANGED <<parser_vars, gui_vars>>
    \/ (\E text \in UnmaskTexts : UnmaskText(text)) /\ UNCHANGED <<parser_vars, gui_vars>>
    \/ ClearMappings /\ UNCHANGED <<parser_vars, gui_vars>>

Spec == Init /\ [][Next]_vars

\* the log parser
InitParser == ParserInit /\ MaskerIdle /\ GuiIdle

NextParser ==
    \/ ParseFile /\ UNCHANGED <<masker_vars, gui_vars>>
    \/ GetSecuritySummary /\ UNCHANGED <<masker_vars, gui_vars>>

SpecParser == InitParser /\ [][NextParser]_vars

\* a delimited file is parsed
InitCsv == MaskerIdle /\ CsvInit /\ GuiIdle

NextCsv == ParseCsv /\ UNCHANGED <<masker_vars, gui_vars>>

SpecCsv == InitCsv /\ [][NextCsv]_vars

\* mask_ip on a session that has masked up to 257 addresses
InitClasses == ClassesInit /\ ParserIdle /\ GuiIdle

NextClasses == (\E ip \in ClassIPs : MaskNext(ip)) /\ UNCHANGED <<parser_vars, gui_vars>>

SpecClasses == InitClasses /\ [][NextClasses]_vars

\* the pseudonymization engine in runs where no load trims
InitNoTrim == MaskerInit /\ ParserIdle /\ GuiIdle

NextNoTrim ==
    \/ (\E max \in MaxMappingsChoices : RestartWithinCapacity(max))
            /\ UNCHANGED <<parser_vars, gui_vars>>
    \/ (\E ip \in IPs : MaskIp(ip)) /\ UNCHANGED <<parser_vars, gui_vars>>
    \/ (\E text \in Texts : MaskText(text)) /\ UNCHANGED <<parser_vars, gui_vars>>
    \/ ClearMappings /\ UNCHANGED <<parser_vars, gui_vars>>

SpecNoTrim == InitNoTrim /\ [][NextNoTrim]_vars

\* the main window
InitGui == MaskerInit /\ ParserIdle /\ GuiIdle

NextGui == GuiNext

SpecGui == InitGui /\ [][NextGui]_vars

----------------------------------------------------------------------------
(* Claims about the pseudonymization engine, checked under Spec *)

\* every pseudonym the masker can hold or build
Pseudonyms == { masked_ip(ip, n) : ip \in IPs, n \in 0..Cardinality(IPs) }

\* C1: after any sequence of IPMasker operations the mapping is a bijection:
\* no two distinct originals share a pseudonym, and every pseudonym of the
\* mapping leads back to its original.
C1_Bijection ==
    /\ \A i, j \in DOMAIN mapping : mapping[i].v = mapping[j].v => i = j
    /\ \A i \in DOMAIN mapping : unmask_ip(reverse_mapping, mapping[i].v) = mapping[i].k

\* C3: whenever mask_ip(ip) returns, unmask_ip of what it returned is ip, and
\* a call of mask_ip or mask_text leaves the pseudonym of every mapped IP as it
\* was (so a later mask_ip(ip) returns what the first returned).
C3_RoundTripAndStable ==
    [][ /\ (ret'.op = "mask_ip" /\ ~ret'.raised)
            => unmask_ip(reverse_mapping', ret'.out) = ret'.arg
        /\ ret'.op \in {"mask_ip", "mask_text"}
            => \A ip \in DictKeys(mapping) :
                  /\ DictHas(mapping', ip)
                  /\ DictGet(mapping', ip) = DictGet(mapping, ip) ]_vars

\* C7: after a construction that returns, the mapping has at most max_mappings
\* entries; a stored mapping within the maximum is loaded as it is, and a larger
\* one loses exactly its oldest entries and the file is rewritten to the rest.
C7_TrimOnLoad ==
    [][ (ret'.op = "construct" /\ ~ret'.raised) =>
          LET loaded == load_mapping(store)
              n == Len(loaded)
          IN  /\ Len(mapping') <= max_mappings'
              /\ n <= max_mappings' => mapping' = loaded /\ store' = store
              /\ n > max_mappings' =>
                    /\ mapping' = SubSeq(loaded, n - max_mappings' + 1, n)
                    /\ store' = JsonFile(mapping')
                    /\ load_mapping(store') = mapping' ]_vars

\* C7 witness: a construction that trimmed a stored mapping down to max_mappings
C7_Witness ==
    /\ ret.op = "construct" /\ ret.created /\ ~ret.raised
    /\ Len(mapping) = max_mappings
    /\ store = JsonFile(mapping)

\* C8: when mask_ip returns after creating a pseudonym the file equals the
\* mapping; and after a restart that finds the file within capacity every IP of
\* the file maps to the pseudonym stored for it and unmask_ip of that pseudonym
\* returns the IP.
C8_DurableAcrossRestart ==
    [][ /\ (ret'.op = "mask_ip" /\ ret'.created /\ ~ret'.raised)
            => load_mapping(store') = mapping'
        /\ (ret'.op = "construct" /\ ~ret'.raised
                /\ Len(load_mapping(store)) <= max_mappings')
            => \A ip \in DictKeys(load_mapping(store)) :
                  /\ DictHas(mapping', ip)
                  /\ DictGet(mapping', ip) = DictGet(load_mapping(store), ip)
                  /\ unmask_ip(reverse_mapping', DictGet(mapping', ip)) = ip ]_vars

C10_ClearEmpties ==
    (ret.op = "clear_mappings" /\ ~ret.raised) =>
        /\ mapping = << >>
        /\ reverse_mapping = << >>
        /\ get_mapping(mapping) = << >>
        /\ \A p \in Pseudonyms \cup IPs : unmask_ip(reverse_mapping, p) = p
        /\ load_mapping(store) = << >>
        /\ \A ip \in IPs :
              /\ mask_ip(mapping, reverse_mapping, ip).created
              /\ mask_ip(mapping, reverse_mapping, ip).out = masked_ip(ip, 0)

\* C10 witness: clear_mappings() returned and rewrote an existing file
C10_Witness ==
    /\ ret.op = "clear_mappings" /\ ~ret.raised
    /\ store = JsonFile(<< >>)

\* the prefix of the private range the claim gives a first octet
RangeOf(first_octet) ==
    IF first_octet \in 1..126 THEN <<10, 0>>
    ELSE IF first_octet \in 128..191 THEN <<172, 16>>
    ELSE IF first_octet \in 192..223 THEN <<192, 168>>
    ELSE <<169, 254>>

\* mapping sizes around the second carry of the counter, and beyond it
LargeSizes == {65535, 65536, 65537, 16777215, 16777216}

\* what the claim gives an original and a mapping size
Claimed(ip, n) == RangeOf(ip[1]) \o <<n % 256, (n \div 256) % 256>>

\* C11 (under SpecClasses): a pseudonym mask_ip creates is p.q.x.y with p.q the
\* private range of the first octet of the original (10.0 for 1..126, 172.16
\* for 128..191, 192.168 for 192..223, 169.254 otherwise), x the size of the
\* mapping before the insertion mod 256 and y that size div 256 mod 256; the
\* pseudonym built for the masked address at the large sizes is the claimed
\* one as well.
C11_PrivateRange ==
    [][ (ret'.op = "mask_ip" /\ ret'.created) =>
          /\ ret'.out = Claimed(ret'.arg, Len(mapping))
          /\ \A n \in LargeSizes : masked_ip(ret'.arg, n) = Claimed(ret'.arg, n) ]_vars

\* C11 witness: an address of first octet 127 was masked as entry 258 and got
\* 169.254.1.1
C11_Witness ==
    /\ ret.op = "mask_ip" /\ ret.created /\ ~ret.raised
    /\ ret.arg[1] = 127
    /\ Len(mapping) = 258
    /\ ret.out = <<169, 254, 1, 1>>

\* the text has no match of IP_PATTERN
NoLiteral(text) == \A i \in DOMAIN text : ~MatchesIP_PATTERN(text[i])

\* C12: mask_text and unmask_text of a text without an IPv4 literal return the
\* text, and leave mapping and reverse_mapping as they were.
C12_IdentityWithoutLiteral ==
    [][ (ret'.op \in {"mask_text", "unmask_text"} /\ ~ret'.raised /\ NoLiteral(ret'.arg)) =>
          /\ ret'.out = ret'.arg
          /\ mapping' = mapping
          /\ reverse_mapping' = reverse_mapping ]_vars

\* the IPv4 literals of a text
Literals(text) == { text[i].ip : i \in { j \in DOMAIN text : MatchesIP_PATTERN(text[j]) } }

\* C13: a mask_text that follows a mask_text of the same text returns what the
\* first returned and adds no entry; and after mask_text on an empty mapping
\* mapping and get_mapping() have one entry for each distinct IPv4 literal of
\* the text, however many literals the text has: the pseudonym of the entry
\* created as the i-th is not the one mask_ip builds for an address of the same
\* range 256 * 256 literals further on in the text.
C13_MaskTextTwice ==
    [][ /\ (/\ ret.op = "mask_text" /\ ~ret.raised
            /\ ret'.op = "mask_text" /\ ~ret'.raised
            /\ ret'.arg = ret.arg)
           => (ret'.out = ret.out /\ mapping' = mapping /\ ~ret'.created)
        /\ (ret'.op = "mask_text" /\ ~ret'.raised /\ mapping = << >>)
           => /\ Len(mapping') = Cardinality(Literals(ret'.arg))
              /\ Len(get_mapping(mapping')) = Cardinality(Literals(ret'.arg))
              /\ DictKeys(mapping') = Literals(ret'.arg)
              /\ \A i \in DOMAIN mapping' :
                    mapping'[i].v # masked_ip(mapping'[i].k, (i - 1) + 256 * 256) ]_vars

\* C24: a call of mask_ip or mask_text, returning or raising, leaves every
\* entry of the mapping in place and as it was and adds its new entries
\* after them, whatever max_mappings is; the mapping gets shorter only by a
\* construction or by clear_mappings.
C24_NoPruningInSession ==
    [][ /\ ret'.op \in {"mask_ip", "mask_text"}
            => /\ Len(mapping') >= Len(mapping)
               /\ SubSeq(mapping', 1, Len(mapping)) = mapping
               /\ max_mappings' = max_mappings
        /\ Len(mapping') < Len(mapping)
            => ret'.op \in {"construct", "clear_mappings"} ]_vars

\* a call added an entry to a mapping that was full and left no entry out
C24_Witness ==
    /\ ret.op \in {"mask_ip", "mask_text"} /\ ret.created
    /\ Len(mapping) > max_mappings
    /\ DictKeys(mapping) = IPs

\* the literals of the text from token i on that are not among keys, each
\* once, in the order of their first occurrence
RECURSIVE Unseen(_, _, _)
Unseen(keys, text, i) ==
    IF i > Len(text) THEN << >>
    ELSE IF MatchesIP_PATTERN(text[i]) /\ text[i].ip \notin keys
    THEN <<text[i].ip>> \o Unseen(keys \cup {text[i].ip}, text, i + 1)
    ELSE Unseen(keys, text, i + 1)

\* C25: a mask_text call that returns has replaced every literal of the text
\* in its place by the pseudonym of the mapping and left the other tokens as
\* they were; the k-th literal not mapped before, in order of first
\* occurrence, was added as entry number (initial size + k) with the
\* pseudonym of counter initial size + k - 1; the store was written once for
\* each of them and holds the mapping after the last; a text whose literals
\* were all mapped causes no write and no change.
C25_FirstOccurrenceOrder ==
    [][ (ret'.op = "mask_text" /\ ~ret'.raised) =>
          LET text == ret'.arg
              new == Unseen(DictKeys(mapping), text, 1)
              n == Len(mapping)
          IN  /\ Len(ret'.out) = Len(text)
              /\ \A i \in DOMAIN text :
                    IF MatchesIP_PATTERN(text[i])
                    THEN /\ ret'.out[i].t = "ip"
                         /\ ret'.out[i].ip = DictGet(mapping', text[i].ip)
                    ELSE ret'.out[i] = text[i]
              /\ Len(mapping') = n + Len(new)
              /\ SubSeq(mapping', 1, n) = mapping
              /\ \A k \in DOMAIN new :
                    mapping'[n + k] = [k |-> new[k], v |-> masked_ip(new[k], n + k - 1)]
              /\ mask_text(mapping, reverse_mapping, store, text, 0, FALSE).writes = Len(new)
              /\ store' = IF new = << >> THEN store ELSE JsonFile(mapping')
              /\ new = << >> => mapping' = mapping /\ reverse_mapping' = reverse_mapping ]_vars

\* a call on a text of two literals, the first of them new to a mapping of
\* one entry and the second new as well
C25_Witness ==
    /\ ret.op = "mask_text" /\ ~ret.raised /\ ret.created
    /\ ret.arg = <<W("connection"), W("from"), Q(203, 0, 113, 7), W("to"), Q(8, 8, 8, 8)>>
    /\ mapping = << [k |-> <<9, 9, 9, 9>>, v |-> <<10, 0, 0, 0>>],
                    [k |-> <<203, 0, 113, 7>>, v |-> <<192, 168, 1, 0>>],
                    [k |-> <<8, 8, 8, 8>>, v |-> <<10, 0, 2, 0>>] >>
    /\ store = JsonFile(mapping)

\* C26: in every state of the masker reverse_mapping is the inverse of
\* mapping: it holds p -> ip exactly when mapping holds ip -> p, the two have
\* the same number of entries, and get_mapping() has one entry for each
\* original of the mapping.
C26_ExactInverse ==
    /\ \A i \in DOMAIN mapping :
          /\ DictHas(reverse_mapping, mapping[i].v)
          /\ DictGet(reverse_mapping, mapping[i].v) = mapping[i].k
    /\ \A j \in DOMAIN reverse_mapping :
          /\ DictHas(mapping, reverse_mapping[j].v)
          /\ DictGet(mapping, reverse_mapping[j].v) = reverse_mapping[j].k
    /\ Len(reverse_mapping) = Len(mapping)
    /\ Len(get_mapping(mapping)) = Cardinality(DictKeys(mapping))

\* C28: whatever the mapping, unmask_text of what a mask_text call returned is
\* the text the call was given.
C28_UnmaskAfterMask ==
    [][ (ret'.op = "mask_text" /\ ~ret'.raised)
            => unmask_text(reverse_mapping', ret'.out) = ret'.arg ]_vars

----------------------------------------------------------------------------
(* Claims about runs without a trimming load, checked under SpecNoTrim *)

----------------------------------------------------------------------------
(* Claims about the log parser, checked under SpecParser *)

\* a record before enrichment
BlankRow == Row(<< >>, << >>, << >>)

\* the attack patterns of the catalog that match the text
MatchingPatterns(text) ==
    { n \in DOMAIN ATTACK_PATTERNS : SearchAttack(ATTACK_PATTERNS[n], text).hit }

\* C4: every line of the file that matches an attack pattern yields a record
\* whose attacker_ip and threat_type are the ones the first matching pattern
\* gives on that line, whether or not a timestamp convention was detected; in
\* particular the syslog-timestamped SSH failure line yields attacker_ip
\* 203.0.113.7 and the SSH-failed-login label.
C4_AnnotatedFromLine ==
    df # NoFrame =>
        \A i \in DOMAIN lines :
            MatchingPatterns(lines[i]) # {} =>
                \E r \in DOMAIN df.rows :
                    /\ df.rows[r].attacker_ip = AttackPass(BlankRow, lines[i], 1).attacker_ip
                    /\ df.rows[r].threat_type = AttackPass(BlankRow, lines[i], 1).threat_type

\* a well-formed IPv4 literal that occurs in the text
WellFormedIn(cell, text) ==
    /\ cell.t = "ip"
    /\ \A k \in 1..4 : cell.ip[k] \in 0..255
    /\ \E j \in DOMAIN text : text[j].t = "ip" /\ OccursIn(cell.ip, text[j].ip)

\* C5: after enrichment attacker_ip and target_ip of every record are absent or
\* a well-formed IPv4 literal (four octets in 0..255) that occurs in the text
\* the enrichment inspected for the record.
C5_WellFormedOrAbsent ==
    df # NoFrame =>
        \A r \in DOMAIN df.rows :
            LET text == InspectedText(df, df.rows[r])
            IN  /\ df.rows[r].attacker_ip = NoneTok \/ WellFormedIn(df.rows[r].attacker_ip, text)
                /\ df.rows[r].target_ip = NoneTok \/ WellFormedIn(df.rows[r].target_ip, text)

\* the IP address a match captured: the group that is a dotted quad
CapturedIP(match) == IF match.g1.t = "ip" THEN match.g1 ELSE match.g2

\* C6: a record whose text matches an attack pattern carries the roles of the
\* first matching pattern: firewall_block gives attacker_ip = capture 1 and
\* target_ip = capture 2; web_attack gives attacker_ip = capture 2 and
\* threat_type = capture 1; every other pattern gives attacker_ip = the captured
\* IP address and threat_type = the friendly name of the pattern.
C6_RoleRule ==
    df # NoFrame =>
        \A r \in DOMAIN df.rows :
            LET text == InspectedText(df, df.rows[r])
                hits == MatchingPatterns(text)
                attack_type == ATTACK_PATTERNS[Min(hits)]
                match == SearchAttack(attack_type, text)
            IN  hits # {} =>
                  CASE attack_type = "firewall_block" ->
                         /\ df.rows[r].attacker_ip = match.g1
                         /\ df.rows[r].target_ip = match.g2
                    [] attack_type = "web_attack" ->
                         /\ df.rows[r].attacker_ip = match.g2
                         /\ df.rows[r].threat_type = match.g1
                    [] OTHER ->
                         /\ df.rows[r].attacker_ip = CapturedIP(match)
                         /\ df.rows[r].threat_type = Label(attack_names(attack_type))

\* the parsed file is line-oriented with a detected timestamp convention
Detected == df # NoFrame /\ df.columns = "timestamp,message"

\* the positions of the lines that match the convention kind, and the j-th of
\* them in file order
MatchingLines(kind) == { i \in DOMAIN lines : MatchesTimestamp(kind, lines[i]) }

NthMatching(kind, j) ==
    CHOOSE i \in MatchingLines(kind) :
        Cardinality({ h \in MatchingLines(kind) : h < i }) = j - 1

\* the lines between the j-th matching line and the next matching line
Continuation(kind, j) ==
    LET last == IF j = Cardinality(MatchingLines(kind)) THEN Len(lines)
                ELSE NthMatching(kind, j + 1) - 1
    IN  SubSeq(lines, NthMatching(kind, j) + 1, last)

\* the records are the matching lines in file order, each followed in its
\* message by the lines up to the next matching line
RecordsFollow(kind) ==
    /\ Len(df.rows) = Cardinality(MatchingLines(kind))
    /\ \A j \in DOMAIN df.rows :
          /\ df.rows[j].timestamp = lines[NthMatching(kind, j)]
          /\ df.rows[j].message = Join(Continuation(kind, j))
          /\ df.rows[j].raw_log = << >>

\* C14: when a timestamp convention is detected there is one record for each
\* line that matches it, in file order, and every other line is appended, in
\* order, to the message of the record of the nearest matching line before
\* it; the records put end to end are the file.
C14_OneRecordPerMatchingLine ==
    Detected =>
        /\ RecordsFollow(timestamp_patterns[detected_pattern(lines)])
        /\ Join([j \in DOMAIN df.rows |-> df.rows[j].timestamp \o df.rows[j].message])
              = Join(lines)

\* C14 witness: twelve lines, the first ten with a syslog timestamp and the
\* last two without; ten records, and the last has both lines in its message
C14_Witness ==
    /\ Detected
    /\ Len(lines) = 12 /\ Len(df.rows) = 10
    /\ ~MatchesTimestamp("syslog", lines[11]) /\ ~MatchesTimestamp("syslog", lines[12])
    /\ lines[11] # lines[12]
    /\ df.rows[10].timestamp = lines[10]
    /\ df.rows[10].message = lines[11] \o lines[12]

\* the convention kind matches each of the first min(10, n) lines
FullyMatches(kind) ==
    \A i \in 1..Min({10, Len(lines)}) : MatchesTimestamp(kind, lines[i])

\* the first of ISO, spaced, bracketed, syslog that matches them all
FirstFullyMatching ==
    IF FullyMatches("iso") THEN "iso"
    ELSE IF FullyMatches("spaced") THEN "spaced"
    ELSE IF FullyMatches("apache") THEN "apache"
    ELSE "syslog"

\* C20: an empty file gives no record; for a file of n lines a convention is
\* detected iff one matches each of the first min(10, n) lines, the records
\* are then split by the first of ISO, spaced, bracketed, syslog that does,
\* and when none is detected there are n records, the raw lines in file
\* order, with neither timestamp nor message.
C20_DetectionOnFirstTen ==
    df # NoFrame =>
        /\ lines = << >> => (df.rows = << >> /\ df.columns = "raw_log")
        /\ lines # << >> =>
              /\ Detected <=> \E k \in DOMAIN timestamp_patterns :
                                 FullyMatches(timestamp_patterns[k])
              /\ Detected => RecordsFollow(FirstFullyMatching)
              /\ ~Detected =>
                    /\ df.columns = "raw_log"
                    /\ Len(df.rows) = Len(lines)
                    /\ \A i \in DOMAIN lines :
                          /\ df.rows[i].raw_log = lines[i]
                          /\ df.rows[i].timestamp = << >>
                          /\ df.rows[i].message = << >>
                          /\ parse_log_or_txt(lines).rows[i] = Row(lines[i], << >>, << >>)

\* C20 witness: eleven lines, each of the first ten with a syslog and a
\* bracketed timestamp, the eleventh with a syslog timestamp alone: the
\* bracketed convention is detected and the eleventh line opens no record
C20_Witness ==
    /\ Detected
    /\ Len(lines) = 11 /\ Len(df.rows) = 10
    /\ FullyMatches("apache") /\ FullyMatches("syslog")
    /\ MatchesTimestamp("syslog", lines[11]) /\ ~MatchesTimestamp("apache", lines[11])
    /\ df.rows[10].message = lines[11]

\* get_security_summary has returned
Summarised == summary # NoSummary

\* the rows of df that are identified threats
Threats == { i \in DOMAIN df.rows :
               df.rows[i].threat_type # NoneTok \/ df.rows[i].threat_description # NoneTok }

\* C15: the identified threats without a threat_type are counted in
\* threat_types under the "unknown threat" label, and every key of
\* threat_types is that label or the threat_type of a record.
C15_UnknownThreatLabel ==
    Summarised =>
        /\ \A i \in Threats :
              df.rows[i].threat_type = NoneTok =>
                 /\ DictHas(summary.threat_types, UnknownThreat)
                 /\ DictGet(summary.threat_types, UnknownThreat)
                       = Cardinality({ j \in Threats : df.rows[j].threat_type = NoneTok })
        /\ \A key \in DictKeys(summary.threat_types) :
              \/ key = UnknownThreat
              \/ key # NoneTok /\ \E i \in Threats : df.rows[i].threat_type = key

\* the bucket the claim gives a record: its severity, Unknown without one
Bucket(row) == IF row.severity = NoneTok THEN Unknown ELSE row.severity

RECURSIVE SumOfCounts(_)
SumOfCounts(d) == IF d = << >> THEN 0 ELSE Head(d).v + SumOfCounts(Tail(d))

\* C16: severity_counts has the four keys high, medium, low, unknown and no
\* other, each identified threat is counted once, in the bucket of its
\* severity or in unknown when it has none, and the counts add up to
\* identified_threats.
C16_FourSeverityBuckets ==
    Summarised =>
        /\ DictKeys(summary.severity_counts) = DictKeys(severity_counts)
        /\ Len(summary.severity_counts) = 4
        /\ \A key \in DictKeys(severity_counts) :
              DictHas(summary.severity_counts, key) =>
                 DictGet(summary.severity_counts, key)
                    = Cardinality({ i \in Threats : Bucket(df.rows[i]) = key })
        /\ SumOfCounts(summary.severity_counts) = summary.identified_threats

\* C17: identified_threats is the number of records with a threat_type or a
\* threat_description, and unique_attackers and unique_targets hold the
\* attacker_ip and target_ip values of those records and no other.
C17_ThreatsAndTheirAddresses ==
    Summarised =>
        /\ summary.identified_threats = Cardinality(Threats)
        /\ summary.total_entries = Len(df.rows)
        /\ summary.unique_attackers
              = { df.rows[i].attacker_ip : i \in Threats } \ {NoneTok}
        /\ summary.unique_targets
              = { df.rows[i].target_ip : i \in Threats } \ {NoneTok}

\* C17 witness: of two records the first is an identified threat and the
\* second has a target address given by the fallback inference alone; the
\* summary counts one threat and does not hold that address
C17_Witness ==
    /\ Summarised
    /\ Len(df.rows) = 2 /\ Threats = {1}
    /\ df.rows[1].attacker_ip # NoneTok
    /\ df.rows[2].target_ip # NoneTok
    /\ summary.identified_threats = 1
    /\ summary.unique_attackers = {df.rows[1].attacker_ip}
    /\ df.rows[2].target_ip \notin summary.unique_targets

\* the threat signatures of the catalog that match the text
MatchingSignatures(text) ==
    { n \in DOMAIN THREAT_SIGNATURES : SearchSignature(THREAT_SIGNATURES[n], text) }

\* the threat_type the attack pattern attack_type gives on the text
ThreatTypeOf(attack_type, text) ==
    IF attack_type = "firewall_block" THEN Label("firewall block")
    ELSE IF attack_type = "web_attack" THEN SearchAttack(attack_type, text).g1
    ELSE Label(attack_names(attack_type))

\* C18: in every record threat_type is the one of the first attack pattern
\* that matches the inspected text, or absent when none matches, whatever the
\* signatures do; severity and threat_description are the ones of the first
\* signature that matches, or absent when none matches, whatever the attack
\* patterns do.
C18_IndependentPasses ==
    df # NoFrame =>
        \A r \in DOMAIN df.rows :
            LET text == InspectedText(df, df.rows[r])
                hits == MatchingPatterns(text)
                sigs == MatchingSignatures(text)
            IN  /\ df.rows[r].threat_type =
                      IF hits = {} THEN NoneTok
                      ELSE ThreatTypeOf(ATTACK_PATTERNS[Min(hits)], text)
                /\ df.rows[r].severity =
                      IF sigs = {} THEN NoneTok
                      ELSE Label(SignatureSeverity(THREAT_SIGNATURES[Min(sigs)]))
                /\ df.rows[r].threat_description =
                      IF sigs = {} THEN NoneTok
                      ELSE Label(SignatureDescription(THREAT_SIGNATURES[Min(sigs)]))
                /\ df.rows[r].threat_type = AttackPass(BlankRow, text, 1).threat_type
                /\ df.rows[r].severity = SignaturePass(BlankRow, text, 1).severity

\* C18 witness: a failed SSH login that speaks of brute force is an SSH login
\* failure of medium severity with the brute force description
C18_Witness ==
    /\ df # NoFrame
    /\ \E r \in DOMAIN df.rows :
          /\ \E i \in DOMAIN df.rows[r].raw_log :
                PhraseAt(df.rows[r].raw_log, i, <<"brute", "force">>)
          /\ df.rows[r].threat_type = Label("SSH login failed")
          /\ df.rows[r].severity = Label("medium")
          /\ df.rows[r].threat_description = Label("brute force or password guessing attack")

\* the record before the enrichment wrote it
Unannotated(row) == Row(row.raw_log, row.timestamp, row.message)

\* C21: the assignments one enrichment run makes to a record give no field a
\* value twice: the first matching attack pattern and the first matching
\* signature alone write, and the fallback inference writes attacker_ip or
\* target_ip only where no earlier pass did; the record is what these
\* assignments leave.
C21_AssignedAtMostOnce ==
    df # NoFrame =>
        \A r \in DOMAIN df.rows :
            LET text == InspectedText(df, df.rows[r])
                made == EnhanceAssignments(Unannotated(df.rows[r]), text)
                passed == AttackPass(Unannotated(df.rows[r]), text, 1)
            IN  /\ \A i, j \in DOMAIN made : i # j => made[i].field # made[j].field
                /\ Replay(Unannotated(df.rows[r]), made) = df.rows[r]
                /\ passed.attacker_ip # NoneTok => df.rows[r].attacker_ip = passed.attacker_ip
                /\ passed.target_ip # NoneTok => df.rows[r].target_ip = passed.target_ip

\* C21 witness: a line that two attack patterns match and that names a second
\* address after "to": the first pattern gave attacker_ip and threat_type,
\* the fallback inference gave target_ip
C21_Witness ==
    /\ df # NoFrame
    /\ \E r \in DOMAIN df.rows :
          LET text == InspectedText(df, df.rows[r])
          IN  /\ Cardinality(MatchingPatterns(text)) = 2
              /\ df.rows[r].threat_type = Label("port scan")
              /\ df.rows[r].attacker_ip = Q(203, 0, 113, 7)
              /\ df.rows[r].target_ip = Q(8, 8, 8, 8)
              /\ Len(EnhanceAssignments(Unannotated(df.rows[r]), text)) = 3

\* the key threat_types uses for a threat_type: row.get('threat_type', ...)
\* of a row that has the column
CountedAs(key) == RowGet(key, UnknownThreat)

\* the first identified threat counted under the key
FirstSeen(key) == Min({ i \in Threats : CountedAs(df.rows[i].threat_type) = key })

\* C23: the entries of threat_types are in order of count, highest first,
\* and entries of equal count are in the order their threat types were first
\* seen in the records.
C23_CountDescendingFirstSeen ==
    Summarised =>
        \A i, j \in DOMAIN summary.threat_types :
            i < j =>
                /\ summary.threat_types[i].v >= summary.threat_types[j].v
                /\ summary.threat_types[i].v = summary.threat_types[j].v =>
                       FirstSeen(summary.threat_types[i].k) < FirstSeen(summary.threat_types[j].k)

\* a threat type seen third is counted twice and comes first, before two
\* threat types counted once each, which keep their order
C23_Witness ==
    /\ Summarised
    /\ Len(summary.threat_types) = 3
    /\ summary.threat_types[1].v = 2
    /\ summary.threat_types[2].v = 1 /\ summary.threat_types[3].v = 1
    /\ \E a, b, c \in Threats :
          /\ a < b /\ b < c
          /\ CountedAs(df.rows[c].threat_type) = summary.threat_types[1].k
          /\ CountedAs(df.rows[a].threat_type) = summary.threat_types[2].k
          /\ CountedAs(df.rows[b].threat_type) = summary.threat_types[3].k
          /\ \A e \in Threats : e < c => df.rows[e].threat_type # df.rows[c].threat_type

\* C29: in a summary identified_threats is at most total_entries, and the
\* counts of threat_types, like those of severity_counts over all its keys,
\* add up to identified_threats.
C29_CountsAddUp ==
    Summarised =>
        /\ summary.identified_threats <= summary.total_entries
        /\ SumOfCounts(summary.threat_types) = summary.identified_threats
        /\ SumOfCounts(summary.severity_counts) = summary.identified_threats

\* a summary of records of which some are no threats, one is a threat without
\* threat_type and one a threat without severity
C29_Witness ==
    /\ Summarised
    /\ summary.identified_threats >= 2
    /\ summary.identified_threats < summary.total_entries
    /\ \E i, j \in Threats :
          /\ df.rows[i].threat_type = NoneTok /\ df.rows[i].severity # NoneTok
          /\ df.rows[j].threat_type # NoneTok /\ df.rows[j].severity = NoneTok

\* the positions of the addresses of the text that stand after one of the
\* words on the same line
AfterKeyword(text, words) ==
    { j \in DOMAIN text :
        /\ text[j].t = "ip" /\ \A k \in 1..4 : text[j].ip[k] < 1000
        /\ \E i \in DOMAIN text : i < j /\ IsWord(text, i, words) /\ OnOneLine(text, i, j) }

\* the address nearest after a keyword: the first keyword-then-address
\* co-occurrence of the text; NoneTok when no address follows a keyword
NearestAfter(text, words) ==
    IF AfterKeyword(text, words) = {} THEN NoneTok
    ELSE text[Min(AfterKeyword(text, words))]

\* C22: when the fallback inference runs on a text with two addresses or more,
\* an unset attacker_ip becomes the address nearest after a source keyword
\* when the text has a source keyword, an unset target_ip the address nearest
\* after a destination keyword when it has a destination keyword, and the
\* first address becomes the attacker and the second the target only when
\* the text has neither keyword.
C22_NearestAfterKeyword ==
    df # NoFrame =>
        \A r \in DOMAIN df.rows :
            LET text == InspectedText(df, df.rows[r])
                passed == SignaturePass(AttackPass(Unannotated(df.rows[r]), text, 1), text, 1)
                ips == ip_addresses(text)
                source == HasWord(text, SourceWords)
                dest == HasWord(text, DestWords)
            IN  (Len(ips) >= 2 /\ (passed.attacker_ip = NoneTok \/ passed.target_ip = NoneTok)) =>
                  /\ (source /\ passed.attacker_ip = NoneTok)
                        => df.rows[r].attacker_ip = NearestAfter(text, SourceWords)
                  /\ (dest /\ passed.target_ip = NoneTok)
                        => df.rows[r].target_ip = NearestAfter(text, DestWords)
                  /\ (source /\ ~dest) => df.rows[r].target_ip = passed.target_ip
                  /\ (dest /\ ~source) => df.rows[r].attacker_ip = passed.attacker_ip
                  /\ (~source /\ ~dest /\ passed.attacker_ip = NoneTok /\ passed.target_ip = NoneTok)
                        => (df.rows[r].attacker_ip = ips[1] /\ df.rows[r].target_ip = ips[2])

----------------------------------------------------------------------------
(* Claims about delimited files, checked under SpecCsv *)

\* the file has the line of names and a record at least, every row has k
\* columns separated by the delimiter, and no other delimiter character
\* occurs in it
DelimitedBy(delimiter, k) ==
    /\ Len(csv_lines) >= 2
    /\ \A i \in DOMAIN csv_lines :
          /\ FieldCount(csv_lines[i], delimiter) = k
          /\ \A n \in DOMAIN delimiters :
                delimiters[n] # delimiter => CountOf(csv_lines[i], delimiters[n]) = 0

\* split at the delimiter every sampled line has the same number of columns
ConsistentUnder(delimiter) ==
    \A i, j \in DOMAIN csv_lines :
        FieldCount(csv_lines[i], delimiter) = FieldCount(csv_lines[j], delimiter)

\* C19: a file of k columns a row, delimited by a comma, a semicolon, a tab
\* or a pipe, is parsed into records of k fields; and when _parse_csv has
\* tested the delimiter candidates and one of them gives every sampled line
\* the same number of columns, the delimiter it selects is such a one.
C19_DelimitedColumns ==
    csv_df # NoCsv =>
        /\ \A n \in DOMAIN delimiters : \A k \in 1..(MaxCsvColumns + 1) :
              DelimitedBy(delimiters[n], k) => (~csv_df.raised /\ csv_df.columns = k)
        /\ (csv_df.fallback /\ csv_df.sep # "") =>
              ((\E n \in DOMAIN delimiters : ConsistentUnder(delimiters[n]))
                 => ConsistentUnder(csv_df.sep))

----------------------------------------------------------------------------
(* Claims about the main window, checked under SpecGui *)

\* the dotted quads of a text
QuadsOf(text) == { text[i].ip : i \in { j \in DOMAIN text : text[j].t = "ip" } }

\* C2: with masking enabled, no text passed to the analysis service (the
\* arguments of analyze_log) contains an original IP address that has a
\* pseudonym in the mapping.
C2_NoOriginalHanded ==
    \A th \in analyze_threads :
        (th.state = "called" /\ th.masked) =>
            \A q \in QuadsOf(th.alert_content) \cup QuadsOf(th.log_content) :
                ~DictHas(mapping, q)

====
